---- MODULE Spec2Model ----
(***************************************************************************)
(* A model of the CSV storage engine of feet (src/src/glue.rs), its line   *)
(* injector (src/src/line_injector.rs) and its table names                 *)
(* (src/src/names.rs).                                                     *)
(*                                                                         *)
(* Text is modelled as sequences of one-character strings, so that the     *)
(* writer's quoting, the reader's splitting and the number parsers are     *)
(* computed and not assumed.  A file is the sequence of its characters.    *)
(***************************************************************************)
EXTENDS Integers, Sequences, FiniteSets, TLC

(***************************************************************************)
(* Rust's Option<T>.                                                       *)
(***************************************************************************)
None == [some |-> FALSE]

Some(x) == [some |-> TRUE, val |-> x]

(* Result<T, anyhow::Error> *)
Ok(x) == [ok |-> TRUE, val |-> x]

Err(e) == [ok |-> FALSE, err |-> e]

Max(a, b) == IF a >= b THEN a ELSE b

Min(a, b) == IF a <= b THEN a ELSE b

(* All sequences over S of length 0..n. *)
SeqsUpTo(S, n) == UNION {[1..k -> S] : k \in 0..n}

(***************************************************************************)
(* Bounds of the line-injector specification.                              *)
(***************************************************************************)
MaxBase == 2

MaxInj == 2

MaxTarget == 3

(* Bounds of the store specifications: the largest row ordinal passed as  *)
(* a key, the rows or keys passed to one call, the calls made in one run,  *)
(* and the data rows of a file whose schema is inferred.                   *)
MaxKey == 2

MaxRows == 2

MaxOps == 3

MaxInferRows == 3

(* Every target is below LineCap, so every line number >= LineCap behaves  *)
(* alike in next_inner's comparisons.  The model keeps the line numbers    *)
(* from LineCap on by their parity only (LineCap, LineCap + 1, LineCap,    *)
(* ...) and keeps the first LineCap emitted lines, so that a run of the    *)
(* iterator that never ends is a cycle of finitely many states.            *)
LineCap == MaxBase + Max(MaxTarget, MaxKey + 1) + 2

(***************************************************************************)
(* line_injector.rs: Injection<T>                                          *)
(***************************************************************************)

(* Vec::sort_by_key is a stable sort: insert each element after the last   *)
(* element whose key is <= its own.                                        *)
RECURSIVE InsertSorted(_, _)
InsertSorted(sorted, e) ==
    IF sorted = <<>> THEN <<e>>
    ELSE IF Head(sorted)[1] <= e[1]
         THEN <<Head(sorted)>> \o InsertSorted(Tail(sorted), e)
         ELSE <<e>> \o sorted

RECURSIVE SortByKey(_)
SortByKey(s) ==
    IF s = <<>> THEN <<>>
    ELSE InsertSorted(SortByKey(SubSeq(s, 1, Len(s) - 1)), s[Len(s)])

(* Injection::prepare: move the front of both queues into `next`; leave    *)
(* `next` as it is when the queues are empty.                              *)
prepare(inj) ==
    IF inj.line_nums # <<>> /\ inj.lines # <<>>
    THEN [line_nums |-> Tail(inj.line_nums),
          lines     |-> Tail(inj.lines),
          next      |-> Some(<<Head(inj.line_nums), Head(inj.lines)>>)]
    ELSE inj

InjectionNew(numbered_lines) ==
    LET sorted == SortByKey(numbered_lines)
    IN  prepare([line_nums |-> [i \in 1..Len(sorted) |-> sorted[i][1]],
                 lines     |-> [i \in 1..Len(sorted) |-> sorted[i][2]],
                 next      |-> None])

next_line_num(inj) == IF inj.next.some THEN Some(inj.next.val[1]) ELSE None

(* Injection::pop_next_line: the line taken and the injection afterwards.  *)
pop_next_line(inj) ==
    IF inj.next.some
    THEN [line |-> Some(inj.next.val[2]),
          injection |-> prepare([inj EXCEPT !.next = None])]
    ELSE [line |-> None, injection |-> inj]

(***************************************************************************)
(* line_injector.rs: LineInjector<T, E, I>, T = String                     *)
(***************************************************************************)

(* String::default() *)
DefaultLine == <<>>

(* LineInjector::next_inner.  self.base.next() is evaluated first in every *)
(* call, so a base line is consumed whether or not it is emitted.          *)
next_inner_skips_base(b, inj, ln) ==
    LET rest == IF b = <<>> THEN b ELSE Tail(b)
        nln  == next_line_num(inj)
        pop  == pop_next_line(inj)
    IN  IF nln.some /\ ln = nln.val
        THEN [item |-> pop.line, base |-> b, injection |-> pop.injection]
        ELSE IF b # <<>>
        THEN [item |-> Some(Head(b)), base |-> rest, injection |-> inj]
        ELSE IF nln.some
        THEN [item |-> Some(DefaultLine), base |-> rest, injection |-> inj]
        ELSE [item |-> None, base |-> rest, injection |-> inj]

next_inner(b, inj, ln) ==
    LET rest == IF b = <<>> THEN b ELSE Tail(b)
        nln  == next_line_num(inj)
        pop  == pop_next_line(inj)
    IN  IF b = <<>> /\ ~nln.some
        THEN [item |-> None, base |-> rest, injection |-> inj]
        ELSE IF b = <<>>
        THEN IF ln = nln.val
             THEN [item |-> pop.line, base |-> rest, injection |-> pop.injection]
             ELSE [item |-> Some(DefaultLine), base |-> rest, injection |-> inj]
        ELSE IF ~nln.some
        THEN [item |-> Some(Head(b)), base |-> rest, injection |-> inj]
        ELSE IF ln = nln.val
             THEN [item |-> pop.line, base |-> rest, injection |-> pop.injection]
             ELSE [item |-> Some(Head(b)), base |-> rest, injection |-> inj]

(* LineInjector::increment_line_num *)
increment_line_num(ln) == IF ln > LineCap THEN LineCap ELSE ln + 1

(***************************************************************************)
(* Text: str::parse for the three column types (glue.rs, min_column_type   *)
(* and value_from_str).  Numbers too large for the checker's integers are  *)
(* compared digit by digit, so the 64-bit and 32-bit limits are exact.     *)
(***************************************************************************)
Digits == <<"0", "1", "2", "3", "4", "5", "6", "7", "8", "9">>

IsDigit(c) == \E i \in 1..10 : Digits[i] = c

DigitVal(c) == (CHOOSE i \in 1..10 : Digits[i] = c) - 1

Quote == "\""

Slash == "/"

Dot == "."

Comma == ","

Newline == "\n"

Minus == "-"

Plus == "+"

(* i64::MAX, -i64::MIN, i32::MAX and -i32::MIN in decimal.                 *)
I64MaxDigits ==
    <<"9", "2", "2", "3", "3", "7", "2", "0", "3", "6", "8", "5", "4", "7",
      "7", "5", "8", "0", "7">>

I64MinDigits ==
    <<"9", "2", "2", "3", "3", "7", "2", "0", "3", "6", "8", "5", "4", "7",
      "7", "5", "8", "0", "8">>

I32MaxDigits == <<"2", "1", "4", "7", "4", "8", "3", "6", "4", "7">>

I32MinDigits == <<"2", "1", "4", "7", "4", "8", "3", "6", "4", "8">>

RECURSIVE StripZeros(_)
StripZeros(ds) ==
    IF ds # <<>> /\ Head(ds) = "0" THEN StripZeros(Tail(ds)) ELSE ds

(* a <= b for digit strings without leading zeros.                         *)
RECURSIVE DigitsLeq(_, _)
DigitsLeq(a, b) ==
    IF Len(a) # Len(b) THEN Len(a) < Len(b)
    ELSE IF a = <<>> THEN TRUE
    ELSE IF Head(a) # Head(b) THEN DigitVal(Head(a)) < DigitVal(Head(b))
    ELSE DigitsLeq(Tail(a), Tail(b))

AllDigits(ds) == \A i \in 1..Len(ds) : IsDigit(ds[i])

HasSign(str) == str # <<>> /\ str[1] \in {Plus, Minus}

Unsigned(str) == IF HasSign(str) THEN Tail(str) ELSE str

(* <integer>::from_str: an optional sign, at least one digit, only digits, *)
(* no overflow of the type whose limits are given.                         *)
ParsesInt(str, maxDigits, minDigits) ==
    LET ds == Unsigned(str)
    IN  /\ ds # <<>>
        /\ AllDigits(ds)
        /\ DigitsLeq(StripZeros(ds),
                     IF HasSign(str) /\ str[1] = Minus THEN minDigits ELSE maxDigits)

ParsesI64(str) == ParsesInt(str, I64MaxDigits, I64MinDigits)

ParsesI32(str) == ParsesInt(str, I32MaxDigits, I32MinDigits)

(* f64::from_str on the characters of the model (no exponent letter and    *)
(* none of the letters of inf, infinity and nan are in them): an optional  *)
(* sign, digits with at most one ".", and at least one digit.              *)
ParsesF64(str) ==
    LET ds   == Unsigned(str)
        dots == {i \in 1..Len(ds) : ds[i] = Dot}
    IN  /\ Cardinality(dots) <= 1
        /\ \A i \in 1..Len(ds) : IsDigit(ds[i]) \/ ds[i] = Dot
        /\ \E i \in 1..Len(ds) : IsDigit(ds[i])

(***************************************************************************)
(* names.rs: std::path::PathBuf as the code uses it.  A path is the        *)
(* sequence of its components below "/"; a component is a string, ".."     *)
(* being the parent-directory component.                                   *)
(***************************************************************************)
MaxIdLen == 5

ParentDir == <<Dot, Dot>>

CurDir == <<Dot>>

CsvExt == <<"c", "s", "v">>

(* str::split: the pieces between separators, empty pieces included.       *)
RECURSIVE SplitOn(_, _)
SplitOn(s, sep) ==
    IF \A i \in 1..Len(s) : s[i] # sep THEN <<s>>
    ELSE LET i == CHOOSE k \in 1..Len(s) :
                      s[k] = sep /\ \A j \in 1..(k - 1) : s[j] # sep
         IN  <<SubSeq(s, 1, i - 1)>> \o SplitOn(SubSeq(s, i + 1, Len(s)), sep)

RECURSIVE SelectSeqNot(_, _)
SelectSeqNot(s, drop) ==
    IF s = <<>> THEN <<>>
    ELSE IF Head(s) \in drop THEN SelectSeqNot(Tail(s), drop)
         ELSE <<Head(s)>> \o SelectSeqNot(Tail(s), drop)

(* Path::components of a string: repeated separators and "." are skipped.  *)
Components(str) == SelectSeqNot(SplitOn(str, Slash), {<<>>, CurDir})

(* PathBuf::push: an absolute argument replaces the path.                  *)
PathPush(path, str) ==
    IF str # <<>> /\ str[1] = Slash THEN Components(str)
    ELSE path \o Components(str)

RECURSIVE PathExtend(_, _)
PathExtend(path, parts) ==
    IF parts = <<>> THEN path
    ELSE PathExtend(PathPush(path, Head(parts)), Tail(parts))

(* The index of the last "." of a file name that splits it into stem and   *)
(* extension, or 0: ".." and a name whose only "." is its first character  *)
(* have no extension.                                                      *)
ExtDot(file) ==
    IF file = ParentDir \/ \A i \in 1..Len(file) : file[i] # Dot THEN 0
    ELSE LET i == CHOOSE k \in 1..Len(file) :
                      file[k] = Dot /\ \A j \in (k + 1)..Len(file) : file[j] # Dot
         IN  IF i = 1 THEN 0 ELSE i

(* Path::file_name: the last component unless it is "..".                  *)
FileName(path) ==
    IF path = <<>> \/ path[Len(path)] = ParentDir THEN None
    ELSE Some(path[Len(path)])

(* Path::extension *)
Extension(path) ==
    LET f == FileName(path)
    IN  IF ~f.some \/ ExtDot(f.val) = 0 THEN None
        ELSE Some(SubSeq(f.val, ExtDot(f.val) + 1, Len(f.val)))

(* Path::file_stem of a path that has a file name.                         *)
FileStem(file) ==
    IF ExtDot(file) = 0 THEN file ELSE SubSeq(file, 1, ExtDot(file) - 1)

(* Path::with_extension: the stem of the file name, then "." and the new   *)
(* extension unless that is empty; a path with no file name is unchanged.  *)
(* A stem "." left alone (the file name "..csv" without its extension) is  *)
(* the current-directory component, which a path does not keep.            *)
WithExtension(path, ext) ==
    LET f == FileName(path)
    IN  IF ~f.some THEN path
        ELSE IF ext = <<>> /\ FileStem(f.val) = CurDir
        THEN SubSeq(path, 1, Len(path) - 1)
        ELSE [path EXCEPT ![Len(path)] =
                 IF ext = <<>> THEN FileStem(f.val)
                 ELSE FileStem(f.val) \o <<Dot>> \o ext]

(* A mutant of try_new: any extension is accepted.                         *)
try_new_any_extension(path, root) ==
    Ok([path |-> WithExtension(path, <<>>), root |-> root])

(* TablePath::try_new *)
try_new(path, root) ==
    IF Extension(path).some /\ Extension(path).val # CsvExt
    THEN Err("table path with non-csv extension")
    ELSE Ok([path |-> WithExtension(path, <<>>), root |-> root])

(* TablePath::as_csv *)
as_csv(tp) == WithExtension(tp.path, CsvExt)

(* TablePath::as_dir *)
as_dir(tp) == tp.path

(* TableName::new *)
TableNameNew(parts, root) == [parts |-> parts, root |-> root]

(* TableIdentifier::new *)
TableIdentifierNew(name, root) == [name |-> name, root |-> root]

(* impl TryFrom<TableName> for TablePath *)
NameToPath(name) == try_new(PathExtend(name.root, name.parts), name.root)

(* Path::strip_prefix: by components.                                      *)
StripPrefix(path, prefix) ==
    IF Len(prefix) <= Len(path) /\ SubSeq(path, 1, Len(prefix)) = prefix
    THEN Ok(SubSeq(path, Len(prefix) + 1, Len(path)))
    ELSE Err("prefix not found")

(* A mutant of the conversion: the root is not stripped from the path.     *)
PathToName_keeps_root(tp) ==
    IF \E i \in 1..Len(tp.path) : tp.path[i] = ParentDir
    THEN Err("Unexpected path component")
    ELSE Ok(TableNameNew(tp.path, tp.root))

(* impl TryFrom<TablePath> for TableName *)
PathToName(tp) ==
    LET rel == StripPrefix(tp.path, tp.root)
    IN  IF ~rel.ok THEN Err("path is not in data directory")
        ELSE IF \E i \in 1..Len(rel.val) : rel.val[i] = ParentDir
             THEN Err("Unexpected path component")
             ELSE Ok(TableNameNew(rel.val, tp.root))

(* impl TryFrom<TableIdentifier> for TableName *)
IdentifierToName(id) == Ok(TableNameNew(SplitOn(id.name, Slash), id.root))

(* impl TryFrom<TableIdentifier> for TablePath *)
IdentifierToPath(id) == NameToPath(IdentifierToName(id).val)

(* The file the operating system opens for a path: ".." leaves the         *)
(* directory reached so far ("/.." is "/").                                *)
RECURSIVE Canonical(_)
Canonical(path) ==
    IF path = <<>> THEN <<>>
    ELSE LET init == Canonical(SubSeq(path, 1, Len(path) - 1))
         IN  IF path[Len(path)] = ParentDir
             THEN IF init = <<>> THEN <<>> ELSE SubSeq(init, 1, Len(init) - 1)
             ELSE Append(init, path[Len(path)])

(* CsvStore.data_dir: the root, "/d".                                      *)
DataDir == <<<<"d">>>>

(***************************************************************************)
(* Values (gluesql Value) and keys (gluesql Key).  A number is held as its *)
(* canonical decimal text, which names the same number as the machine      *)
(* value does (for floats of up to 15 significant digits): "+7" and "007"  *)
(* are both the integer 7, "1.50" and "1.5" the same float.                *)
(***************************************************************************)
Str(str) == [k |-> "Str", s |-> str]

I32(repr) == [k |-> "I32", repr |-> repr]

I64(repr) == [k |-> "I64", repr |-> repr]

F64(repr) == [k |-> "F64", repr |-> repr]

Null == [k |-> "Null"]

Date(d) == [k |-> "Date", d |-> d]

KeyI32(n) == [k |-> "I32", n |-> n]

(* The canonical text of the integer a parseable string denotes.           *)
CanonInt(str) ==
    LET ds  == StripZeros(Unsigned(str))
        mag == IF ds = <<>> THEN <<"0">> ELSE ds
    IN  IF HasSign(str) /\ str[1] = Minus /\ ds # <<>> THEN <<Minus>> \o mag ELSE mag

RECURSIVE StripTrailingZeros(_)
StripTrailingZeros(ds) ==
    IF ds # <<>> /\ ds[Len(ds)] = "0"
    THEN StripTrailingZeros(SubSeq(ds, 1, Len(ds) - 1)) ELSE ds

(* The text fmt::Display gives the float a parseable string denotes.       *)
CanonFloat(str) ==
    LET ds    == Unsigned(str)
        dot   == IF \E i \in 1..Len(ds) : ds[i] = Dot
                 THEN CHOOSE i \in 1..Len(ds) : ds[i] = Dot ELSE Len(ds) + 1
        whole == StripZeros(SubSeq(ds, 1, dot - 1))
        frac  == StripTrailingZeros(SubSeq(ds, dot + 1, Len(ds)))
        sign  == IF HasSign(str) /\ str[1] = Minus THEN <<Minus>> ELSE <<>>
    IN  sign \o (IF whole = <<>> THEN <<"0">> ELSE whole)
             \o (IF frac = <<>> THEN <<>> ELSE <<Dot>> \o frac)

NullText == <<"N", "U", "L", "L">>

(* main.rs format_value: the value kinds whose arm is todo!().  The macro  *)
(* panics, so format_value returns no string for them.                     *)
TodoKinds == {"Date", "Timestamp", "Time", "Interval", "Uuid", "Map", "List"}

Todo(value) == value.k \in TodoKinds

(* main.rs format_value, for the value kinds it renders.                   *)
format_value(value) ==
    CASE value.k = "Str" -> value.s
      [] value.k \in {"I32", "I64", "F64"} -> value.repr
      [] value.k = "Null" -> NullText

(***************************************************************************)
(* The csv crate as glue.rs configures it (all defaults): "," delimiter,   *)
(* double-quote quoting with doubled quotes, "\n" written after each       *)
(* record, empty lines skipped on reading, records of unequal length       *)
(* rejected.                                                               *)
(***************************************************************************)
NeedsQuotes(field) ==
    \E i \in 1..Len(field) : field[i] \in {Quote, Comma, Newline}

RECURSIVE DoubleQuotes(_)
DoubleQuotes(field) ==
    IF field = <<>> THEN <<>>
    ELSE (IF Head(field) = Quote THEN <<Quote, Quote>> ELSE <<Head(field)>>)
         \o DoubleQuotes(Tail(field))

WriteField(field) ==
    IF NeedsQuotes(field) THEN <<Quote>> \o DoubleQuotes(field) \o <<Quote>>
    ELSE field

RECURSIVE JoinFields(_)
JoinFields(fields) ==
    IF fields = <<>> THEN <<>>
    ELSE IF Len(fields) = 1 THEN WriteField(fields[1])
    ELSE WriteField(Head(fields)) \o <<Comma>> \o JoinFields(Tail(fields))

(* csv::Writer::write_record: a record that wrote no byte is written as a  *)
(* pair of quotes.                                                         *)
write_record(fields) ==
    (IF JoinFields(fields) = <<>> THEN <<Quote, Quote>> ELSE JoinFields(fields))
    \o <<Newline>>

RECURSIVE write_records(_)
write_records(records) ==
    IF records = <<>> THEN <<>>
    ELSE write_record(Head(records)) \o write_records(Tail(records))

(* The reader's automaton run to the end of one record: the characters     *)
(* left, its state, the field and the record being built.  It gives the    *)
(* record read (none at the end of the data) and the characters after it.  *)
RECURSIVE ReadRecord(_, _, _, _)
ReadRecord(data, st, field, rec) ==
    IF data = <<>>
    THEN IF st = "StartRecord" THEN [some |-> FALSE, rest |-> <<>>]
         ELSE [some |-> TRUE, val |-> Append(rec, field), rest |-> <<>>]
    ELSE LET c         == Head(data)
             rest      == Tail(data)
             endField  == ReadRecord(rest, "StartField", <<>>, Append(rec, field))
             endRecord == [some |-> TRUE, val |-> Append(rec, field), rest |-> rest]
         IN  CASE st = "StartRecord" ->
                    IF c = Newline THEN ReadRecord(rest, "StartRecord", <<>>, <<>>)
                    ELSE ReadRecord(data, "StartField", <<>>, <<>>)
               [] st = "StartField" ->
                    IF c = Quote THEN ReadRecord(rest, "InQuotedField", <<>>, rec)
                    ELSE IF c = Comma THEN endField
                    ELSE IF c = Newline THEN endRecord
                    ELSE ReadRecord(rest, "InField", <<c>>, rec)
               [] st = "InField" ->
                    IF c = Comma THEN endField
                    ELSE IF c = Newline THEN endRecord
                    ELSE ReadRecord(rest, "InField", Append(field, c), rec)
               [] st = "InQuotedField" ->
                    IF c = Quote
                    THEN ReadRecord(rest, "InDoubleEscapedQuote", field, rec)
                    ELSE ReadRecord(rest, "InQuotedField", Append(field, c), rec)
               [] st = "InDoubleEscapedQuote" ->
                    IF c = Quote
                    THEN ReadRecord(rest, "InQuotedField", Append(field, c), rec)
                    ELSE IF c = Comma THEN endField
                    ELSE IF c = Newline THEN endRecord
                    ELSE ReadRecord(rest, "InField", Append(field, c), rec)

(* The records read one after another until the data ends.                 *)
RECURSIVE CsvRead(_)
CsvRead(data) ==
    LET r == ReadRecord(data, "StartRecord", <<>>, <<>>)
    IN  IF ~r.some THEN <<>> ELSE <<r.val>> \o CsvRead(r.rest)

(* Every record of a file, the header first.                               *)
CsvRecords(data) == CsvRead(data)

(* reader.headers(): the first record, empty for a file without records.   *)
Headers(data) ==
    IF CsvRecords(data) = <<>> THEN <<>> ELSE CsvRecords(data)[1]

(* reader.records(): the records after the header; one whose length is not *)
(* the header's is an error item.                                          *)
Records(data) ==
    LET all == CsvRecords(data)
    IN  [i \in 1..(Len(all) - 1) |->
            IF Len(all[i + 1]) = Len(all[1]) THEN Ok(all[i + 1])
            ELSE Err("UnequalLengths")]

(* BufRead::lines: the text between line feeds; no line after the last     *)
(* line feed.                                                              *)
Lines(data) ==
    LET pieces == SplitOn(data, Newline)
    IN  IF pieces[Len(pieces)] = <<>> THEN SubSeq(pieces, 1, Len(pieces) - 1)
        ELSE pieces

(* writeln!(buf, "{}", line) for each line.                                *)
RECURSIVE WriteLines(_)
WriteLines(lines) ==
    IF lines = <<>> THEN <<>>
    ELSE Head(lines) \o <<Newline>> \o WriteLines(Tail(lines))

(***************************************************************************)
(* The file system: a function from (canonical) paths to directories and   *)
(* files.                                                                  *)
(***************************************************************************)
DirEntry == [kind |-> "dir"]

FileEntry(data) == [kind |-> "file", data |-> data]

IsFile(fsys, path) == path \in DOMAIN fsys /\ fsys[path].kind = "file"

IsDir(fsys, path) == path \in DOMAIN fsys /\ fsys[path].kind = "dir"

FsPut(fsys, path, entry) ==
    [q \in DOMAIN fsys \cup {path} |-> IF q = path THEN entry ELSE fsys[q]]

FsRemove(fsys, path) == [q \in DOMAIN fsys \ {path} |-> fsys[q]]

Prefixes(path) == {SubSeq(path, 1, n) : n \in 0..Len(path)}

(* std::fs::create_dir_all *)
create_dir_all(fsys, dir) ==
    LET d == Canonical(dir)
    IN  IF \E q \in Prefixes(d) : IsFile(fsys, q) THEN Err("not a directory")
        ELSE Ok([q \in DOMAIN fsys \cup Prefixes(d) |->
                    IF q \in Prefixes(d) THEN DirEntry ELSE fsys[q]])

(* File::open, csv::Reader::from_path: the content of an existing file.    *)
OpenFile(fsys, path) ==
    IF IsFile(fsys, Canonical(path)) THEN Ok(fsys[Canonical(path)].data)
    ELSE Err("No such file")

(* File::create, csv::Writer::from_path and the write that follows: the    *)
(* file is created or truncated and holds `data`.                          *)
CreateFile(fsys, path, data) ==
    LET c == Canonical(path)
    IN  IF c = <<>> \/ IsDir(fsys, c) \/ ~IsDir(fsys, SubSeq(c, 1, Len(c) - 1))
        THEN Err("cannot create file")
        ELSE Ok(FsPut(fsys, c, FileEntry(data)))

(***************************************************************************)
(* glue.rs: schema inference                                               *)
(***************************************************************************)
TypeRank(t) == CASE t = "Int" -> 0 [] t = "Float" -> 1 [] t = "String" -> 2

(* A mutant of TypeMax: the later type wins.                               *)
TypeMax_last(f, s) == s

(* Ord::max on ColumnType *)
TypeMax(f, s) == IF TypeRank(s) >= TypeRank(f) THEN s ELSE f

(* impl From<ColumnType> for DataType *)
DataTypeOf(t) ==
    CASE t = "Int" -> "Int32" [] t = "Float" -> "Float" [] t = "String" -> "Text"

(* A mutant of min_column_type: the order of the tests is inverted.        *)
min_column_type_inverted(value) ==
    IF ParsesI64(value) THEN "String"
    ELSE IF ParsesF64(value) THEN "Float"
    ELSE "Int"

min_column_type(value) ==
    IF ParsesI64(value) THEN "Int"
    ELSE IF ParsesF64(value) THEN "Float"
    ELSE "String"

column_types_from_record(record) ==
    [i \in 1..Len(record) |-> min_column_type(record[i])]

(* zip stops at the shorter list.                                          *)
merge_column_types(first, second) ==
    [i \in 1..Min(Len(first), Len(second)) |-> TypeMax(first[i], second[i])]

(* The fold step: the first argument is the accumulator, the second the    *)
(* next item of the mapped record iterator.                                *)
reduce_column_types(new_types, agg) ==
    IF agg.ok THEN Ok(merge_column_types(agg.val, new_types)) ELSE agg

(* Iterator::try_fold: stops at the first error.                           *)
RECURSIVE TryFoldTypes(_, _)
TryFoldTypes(acc, items) ==
    IF items = <<>> THEN Ok(acc)
    ELSE LET item == IF Head(items).ok
                     THEN Ok(column_types_from_record(Head(items).val))
                     ELSE Head(items)
             r    == reduce_column_types(acc, item)
         IN  IF r.ok THEN TryFoldTypes(r.val, Tail(items)) ELSE r

(* A mutant of determine_column_types: the fold starts from String.        *)
determine_column_types_from_string(records, ncols) ==
    TryFoldTypes([i \in 1..ncols |-> "String"], records)

determine_column_types(records, ncols) ==
    TryFoldTypes([i \in 1..ncols |-> "Int"], records)

(* The (name, type) pairs of a table; zip stops at the shorter list.       *)
get_column_types_for_table(fsys, tp) ==
    LET f == OpenFile(fsys, as_csv(tp))
    IN  IF ~f.ok THEN f
        ELSE LET headers   == Headers(f.val)
                 col_types == determine_column_types(Records(f.val), Len(headers))
             IN  IF ~col_types.ok THEN col_types
                 ELSE Ok([i \in 1..Min(Len(headers), Len(col_types.val)) |->
                             <<headers[i], col_types.val[i]>>])

(* [String]::join("/") *)
RECURSIVE JoinParts(_)
JoinParts(parts) ==
    IF parts = <<>> THEN <<>>
    ELSE IF Len(parts) = 1 THEN parts[1]
    ELSE Head(parts) \o <<Slash>> \o JoinParts(Tail(parts))

(* impl TryFrom<TablePath> for TableIdentifier *)
PathToIdentifier(tp) ==
    IF PathToName(tp).ok THEN Ok(JoinParts(PathToName(tp).val.parts))
    ELSE PathToName(tp)

read_schema(fsys, tp) ==
    LET col_pairs == get_column_types_for_table(fsys, tp)
        table_id  == PathToIdentifier(tp)
    IN  IF ~col_pairs.ok THEN col_pairs
        ELSE IF ~table_id.ok THEN table_id
        ELSE Ok([table_name  |-> table_id.val,
                 column_defs |-> [i \in 1..Len(col_pairs.val) |->
                                     [name      |-> col_pairs.val[i][1],
                                      data_type |-> DataTypeOf(col_pairs.val[i][2])]]])

(***************************************************************************)
(* glue.rs: listing a namespace (CsvStore::list_tables)                    *)
(***************************************************************************)
Star == "*"

QuestionMark == "?"

(* globset: Glob::new(pattern).compile_matcher().is_match(name) for a      *)
(* pattern of literal characters, "*" (any characters) and "?" (any one    *)
(* character).                                                             *)
RECURSIVE GlobMatch(_, _)
GlobMatch(pattern, name) ==
    IF pattern = <<>> THEN name = <<>>
    ELSE IF Head(pattern) = Star
    THEN \/ GlobMatch(Tail(pattern), name)
         \/ name # <<>> /\ GlobMatch(pattern, Tail(name))
    ELSE IF name = <<>> THEN FALSE
    ELSE /\ Head(pattern) = QuestionMark \/ Head(pattern) = Head(name)
         /\ GlobMatch(Tail(pattern), Tail(name))

(* CsvStore::should_ignore: some glob matches the file name.               *)
should_ignore(igs, filename) ==
    Ok(\E i \in 1..Len(igs) : GlobMatch(igs[i], filename))

(* std::fs::read_dir: the entries directly inside a directory.             *)
read_dir(fsys, dir) ==
    LET d == Canonical(dir)
    IN  IF ~IsDir(fsys, d) THEN Err("No such directory")
        ELSE Ok({q \in DOMAIN fsys : Len(q) = Len(d) + 1 /\ SubSeq(q, 1, Len(d)) = d})

TableDataDir == [kind |-> "Dir"]

TableDataTable(schema) == [kind |-> "Table", schema |-> schema]

(* A mutant of try_from_dir_entry: a child that is no directory and no csv *)
(* file is listed as a namespace.                                          *)
try_from_dir_entry_lenient(fsys, entry, data_dir) ==
    LET path == try_new(entry, data_dir)
        name == PathToName(path.val)
    IN  IF ~path.ok THEN Ok([name |-> TableNameNew(<<>>, data_dir), data |-> TableDataDir])
        ELSE IF ~name.ok THEN name
        ELSE Ok([name |-> name.val, data |-> TableDataDir])

(* The Table node of a csv file, given the result of read_schema.         *)
TableNodeOf(name, schema) ==
    IF ~schema.ok THEN schema
    ELSE Ok([name |-> name, data |-> TableDataTable(schema.val)])

(* TableNode::try_from_dir_entry *)
try_from_dir_entry(fsys, entry, data_dir) ==
    LET path == try_new(entry, data_dir)
        name == PathToName(path.val)
    IN  IF ~path.ok THEN path
        ELSE IF ~name.ok THEN name
        ELSE IF IsDir(fsys, entry)
        THEN Ok([name |-> name.val, data |-> TableDataDir])
        ELSE IF IsFile(fsys, entry) /\ Extension(entry) = Some(CsvExt)
        THEN TableNodeOf(name.val, read_schema(fsys, path.val))
        ELSE Err("is not a file or directory?")

(* The loop of list_tables over the entries in the order read_dir gives    *)
(* them: an entry the ignore globs match is passed over, the first other   *)
(* entry that gives no node ends the call with its error, and the nodes of *)
(* the others are collected in order.                                      *)
IsListed(step) == ~step.skip

ListResult(steps) ==
    LET bad  == {i \in 1..Len(steps) : ~steps[i].skip /\ ~steps[i].node.ok}
        kept == SelectSeq(steps, IsListed)
    IN  IF bad # {} THEN steps[CHOOSE i \in bad : \A k \in bad : i <= k].node
        ELSE Ok([i \in 1..Len(kept) |-> kept[i].node.val])

ListLoop(fsys, igs, data_dir, entries) ==
    ListResult([i \in 1..Len(entries) |->
                   IF should_ignore(igs, entries[i][Len(entries[i])]).val
                   THEN [skip |-> TRUE]
                   ELSE [skip |-> FALSE,
                         node |-> try_from_dir_entry(fsys, entries[i], data_dir)]])

(* CsvStore::list_tables, with the entries of the directory enumerated in  *)
(* the given order (read_dir promises none).                               *)
list_tables(fsys, igs, dir, order) ==
    LET dir_path == NameToPath(dir)
    IN  IF ~dir_path.ok THEN dir_path
        ELSE IF ~read_dir(fsys, as_dir(dir_path.val)).ok
        THEN read_dir(fsys, as_dir(dir_path.val))
        ELSE ListLoop(fsys, igs, dir.root, order)

(***************************************************************************)
(* glue.rs: the row codec and the read operations (impl Store)             *)
(***************************************************************************)
value_from_str(val, typ) ==
    CASE typ = "Int" ->
           IF ParsesI32(val) THEN Ok(I32(CanonInt(val))) ELSE Err("ParseIntError")
      [] typ = "Float" ->
           IF ParsesF64(val) THEN Ok(F64(CanonFloat(val))) ELSE Err("ParseFloatError")
      [] typ = "String" -> Ok(Str(val))

(* zip stops at the shorter list; the first value that fails to parse      *)
(* fails the row.                                                          *)
read_csv_record(record, col_types) ==
    LET n    == Min(Len(record), Len(col_types))
        vals == [i \in 1..n |-> value_from_str(record[i], col_types[i])]
    IN  IF \E i \in 1..n : ~vals[i].ok THEN Err("reading csv value")
        ELSE Ok([i \in 1..n |-> vals[i].val])

get_i32_key(key) == IF key.k = "I32" THEN Ok(key.n) ELSE Err("non-i32 key")

get_row_num(key) ==
    IF ~get_i32_key(key).ok THEN get_i32_key(key)
    ELSE IF get_i32_key(key).val >= 0 THEN get_i32_key(key)
    ELSE Err("Invalid row number")

(* The table path of an identifier under the store's data directory.       *)
TablePathOf(table_name) == IdentifierToPath(TableIdentifierNew(table_name, DataDir))

ColTypes(col_pairs) == [i \in 1..Len(col_pairs) |-> col_pairs[i][2]]

(* CsvStore::fetch_schema: Ok(None) for a table without a backing file.    *)
fetch_schema(fsys, table_name) ==
    LET path == TablePathOf(table_name)
    IN  IF ~path.ok THEN path
        ELSE IF Canonical(as_csv(path.val)) \in DOMAIN fsys
        THEN LET schema == read_schema(fsys, path.val)
             IN  IF schema.ok THEN Ok(Some(schema.val)) ELSE schema
        ELSE Ok(None)

(* A mutant of fetch_data: one record too many is skipped.                 *)
fetch_data_skips_one_more(fsys, table_name, key) ==
    LET nskip     == get_row_num(key)
        path      == TablePathOf(table_name)
        col_pairs == get_column_types_for_table(fsys, path.val)
        records   == Records(OpenFile(fsys, as_csv(path.val)).val)
    IN  IF ~nskip.ok THEN nskip
        ELSE IF ~path.ok THEN path
        ELSE IF ~col_pairs.ok THEN col_pairs
        ELSE IF nskip.val + 1 >= Len(records) THEN Ok(None)
        ELSE IF ~records[nskip.val + 2].ok THEN Err("reading csv record")
        ELSE LET row == read_csv_record(records[nskip.val + 2].val,
                                        ColTypes(col_pairs.val))
             IN  IF row.ok THEN Ok(Some(row.val)) ELSE row

(* CsvStore::fetch_data: records.skip(nskip).next()                        *)
fetch_data(fsys, table_name, key) ==
    LET nskip     == get_row_num(key)
        path      == TablePathOf(table_name)
        col_pairs == get_column_types_for_table(fsys, path.val)
        records   == Records(OpenFile(fsys, as_csv(path.val)).val)
    IN  IF ~nskip.ok THEN nskip
        ELSE IF ~path.ok THEN path
        ELSE IF ~col_pairs.ok THEN col_pairs
        ELSE IF nskip.val >= Len(records) THEN Ok(None)
        ELSE IF ~records[nskip.val + 1].ok THEN Err("reading csv record")
        ELSE LET row == read_csv_record(records[nskip.val + 1].val,
                                        ColTypes(col_pairs.val))
             IN  IF row.ok THEN Ok(Some(row.val)) ELSE row

(* CsvStore::scan_data: the items of the returned iterator, each a         *)
(* (key, row) pair or an error.                                            *)
scan_data(fsys, table_name) ==
    LET path      == TablePathOf(table_name)
        col_pairs == get_column_types_for_table(fsys, path.val)
        records   == Records(OpenFile(fsys, as_csv(path.val)).val)
    IN  IF ~path.ok THEN path
        ELSE IF ~col_pairs.ok THEN col_pairs
        ELSE Ok([i \in 1..Len(records) |->
                    IF ~records[i].ok THEN Err("reading csv record")
                    ELSE LET row == read_csv_record(records[i].val,
                                                    ColTypes(col_pairs.val))
                         IN  IF row.ok THEN Ok(<<KeyI32(i - 1), row.val>>) ELSE row])

(***************************************************************************)
(* glue.rs: the mutations (impl CsvStore).  Each gives the file system     *)
(* afterwards and the result returned.                                     *)
(***************************************************************************)
Outcome(fsys, res) == [fs |-> fsys, res |-> res]

(* The call never returns: the loop over the line injector does not end.   *)
NoReturn == [ok |-> FALSE, err |-> "does not return"]

(* The call panicked: the thread unwinds out of the store and nothing is   *)
(* returned to the caller.                                                 *)
Panicked == [ok |-> FALSE, err |-> "panicked"]

(* Path::parent *)
Parent(path) == SubSeq(path, 1, Len(path) - 1)

(* The rows a non-flexible csv::Writer accepts: those before the first row *)
(* whose length differs from the first row's.                              *)
AcceptedRows(rows) ==
    LET bad == {j \in 1..Len(rows) : Len(rows[j]) # Len(rows[1])}
    IN  IF bad = {} THEN rows
        ELSE SubSeq(rows, 1, (CHOOSE j \in bad : \A i \in bad : j <= i) - 1)

FormatRow(row) == [i \in 1..Len(row) |-> format_value(row[i])]

FormatRows(rows) == [j \in 1..Len(rows) |-> FormatRow(rows[j])]

(* The first row with a value format_value panics on (0 if there is none). *)
FirstTodo(rows) ==
    LET bad == {j \in 1..Len(rows) : \E i \in 1..Len(rows[j]) : Todo(rows[j][i])}
    IN  IF bad = {} THEN 0 ELSE CHOOSE j \in bad : \A i \in bad : j <= i

(* write_record pulls the fields from the lazy map one by one, so the      *)
(* panic comes while the row is being written, and before the writer       *)
(* compares the row's length with the first row's.                         *)
PanicsWriting(rows) ==
    FirstTodo(rows) > 0 /\ FirstTodo(rows) <= Len(AcceptedRows(rows)) + 1

(* The bytes the csv writer holds when format_value panics: the rows       *)
(* before the panicking one and that row's fields before the value.  The   *)
(* writer is dropped as the panic unwinds and flushes them.                *)
WrittenBeforePanic(rows) ==
    LET row  == rows[FirstTodo(rows)]
        stop == CHOOSE i \in 1..Len(row) :
                    Todo(row[i]) /\ \A h \in 1..(i - 1) : ~Todo(row[h])
    IN  write_records(FormatRows(SubSeq(rows, 1, FirstTodo(rows) - 1)))
        \o JoinFields(FormatRow(SubSeq(row, 1, stop - 1)))

(* A mutant of insert_schema: the header is written after the content of  *)
(* an existing file.                                                       *)
insert_schema_keeps_rows(fsys, schema) ==
    LET path     == TablePathOf(schema.table_name)
        csv_path == as_csv(path.val)
        dirs     == create_dir_all(fsys, Parent(csv_path))
        headers  == [i \in 1..Len(schema.column_defs) |-> schema.column_defs[i].name]
        old      == IF OpenFile(fsys, csv_path).ok THEN OpenFile(fsys, csv_path).val
                    ELSE <<>>
    IN  Outcome(FsPut(dirs.val, Canonical(csv_path),
                      FileEntry(old \o write_record(headers))),
                Ok(<<>>))

(* CsvStore::insert_schema *)
insert_schema(fsys, schema) ==
    LET path     == TablePathOf(schema.table_name)
        csv_path == as_csv(path.val)
        dirs     == IF csv_path = <<>> THEN Ok(fsys)
                    ELSE create_dir_all(fsys, Parent(csv_path))
        headers  == [i \in 1..Len(schema.column_defs) |-> schema.column_defs[i].name]
        made     == CreateFile(dirs.val, csv_path, write_record(headers))
    IN  IF ~path.ok THEN Outcome(fsys, path)
        ELSE IF ~dirs.ok THEN Outcome(fsys, dirs)
        ELSE IF ~made.ok THEN Outcome(dirs.val, made)
        ELSE Outcome(made.val, Ok(<<>>))

(* A mutant of delete_schema: the namespace directory of the same base     *)
(* name goes with the file.                                                *)
delete_schema_removes_dir(fsys, table_name) ==
    LET path == TablePathOf(table_name)
        file == Canonical(as_csv(path.val))
        dir  == Canonical(as_dir(path.val))
    IN  IF ~IsFile(fsys, file) THEN Outcome(fsys, Err("No such file"))
        ELSE Outcome([q \in {r \in DOMAIN fsys :
                                r # file /\ ~(Len(r) >= Len(dir)
                                              /\ SubSeq(r, 1, Len(dir)) = dir)}
                         |-> fsys[q]],
                     Ok(<<>>))

(* A mutant of delete_schema: every table of the data directory goes.      *)
delete_schema_removes_all(fsys, table_name) ==
    LET path == TablePathOf(table_name)
    IN  IF ~path.ok THEN Outcome(fsys, path)
        ELSE IF ~IsFile(fsys, Canonical(as_csv(path.val)))
        THEN Outcome(fsys, Err("No such file"))
        ELSE Outcome([q \in Prefixes(DataDir) |-> fsys[q]], Ok(<<>>))

(* CsvStore::delete_schema *)
delete_schema(fsys, table_name) ==
    LET path == TablePathOf(table_name)
    IN  IF ~path.ok THEN Outcome(fsys, path)
        ELSE IF ~IsFile(fsys, Canonical(as_csv(path.val)))
        THEN Outcome(fsys, Err("No such file"))
        ELSE Outcome(FsRemove(fsys, Canonical(as_csv(path.val))), Ok(<<>>))

(* A mutant of append_data: the rows are written in reverse order.         *)
append_data_reversed(fsys, table_name, rows) ==
    LET path == TablePathOf(table_name)
        file == OpenFile(fsys, as_csv(path.val))
        rev  == [j \in 1..Len(rows) |-> rows[Len(rows) + 1 - j]]
    IN  IF ~path.ok THEN Outcome(fsys, path)
        ELSE IF ~file.ok THEN Outcome(fsys, file)
        ELSE Outcome(FsPut(fsys, Canonical(as_csv(path.val)),
                           FileEntry(file.val \o write_records(FormatRows(rev)))),
                     Ok(<<>>))

(* A mutant of append_data: the file is opened with create(true).          *)
append_data_creating(fsys, table_name, rows) ==
    LET path == TablePathOf(table_name)
        file == OpenFile(fsys, as_csv(path.val))
        old  == IF file.ok THEN file.val ELSE <<>>
    IN  IF ~path.ok THEN Outcome(fsys, path)
        ELSE Outcome(FsPut(fsys, Canonical(as_csv(path.val)),
                           FileEntry(old \o write_records(FormatRows(rows)))),
                     Ok(<<>>))

(* CsvStore::append_data: the file is opened for appending (it is not      *)
(* created) and each row is written after its last byte.                   *)
append_data(fsys, table_name, rows) ==
    LET path    == TablePathOf(table_name)
        file    == OpenFile(fsys, as_csv(path.val))
        written == AcceptedRows(rows)
    IN  IF ~path.ok THEN Outcome(fsys, path)
        ELSE IF ~file.ok THEN Outcome(fsys, file)
        ELSE IF PanicsWriting(rows)
        THEN Outcome(FsPut(fsys, Canonical(as_csv(path.val)),
                           FileEntry(file.val \o WrittenBeforePanic(rows))),
                     Panicked)
        ELSE Outcome(FsPut(fsys, Canonical(as_csv(path.val)),
                           FileEntry(file.val \o write_records(FormatRows(written)))),
                     IF Len(written) = Len(rows) THEN Ok(<<>>)
                     ELSE Err("UnequalLengths"))

(* The for loop over the injector: the lines collected when it ends.  With *)
(* the base exhausted and the pending target behind the line number, every *)
(* later call returns a blank line, and the loop never ends.               *)
RECURSIVE RunInjector(_, _, _, _)
RunInjector(b, inj, ln, acc) ==
    LET r == next_inner(b, inj, ln)
    IN  IF ~r.item.some THEN Ok(acc)
        ELSE IF b = <<>> /\ next_line_num(inj).some /\ next_line_num(inj).val < ln
        THEN NoReturn
        ELSE RunInjector(r.base, r.injection, increment_line_num(ln),
                         Append(acc, r.item.val))

FirstError(results) ==
    LET bad == {j \in 1..Len(results) : ~results[j].ok}
    IN  results[CHOOSE j \in bad : \A i \in bad : j <= i]

(* A mutant of insert_data: the file is created (truncated) for writing    *)
(* before the previous content is opened.                                  *)
insert_data_creates_first(fsys, table_name, rows) ==
    LET path == TablePathOf(table_name)
    IN  IF ~path.ok THEN Outcome(fsys, path)
        ELSE Outcome(FsPut(fsys, Canonical(as_csv(path.val)), FileEntry(<<>>)),
                     Err("No such file"))

(* CsvStore::insert_data *)
insert_data(fsys, table_name, rows) ==
    LET path      == TablePathOf(table_name)
        row_nums0 == [j \in 1..Len(rows) |-> get_row_num(rows[j][1])]
        numbered_rows ==
            SortByKey([j \in 1..Len(rows) |-> <<row_nums0[j].val, rows[j][2]>>])
        \* one is added to the line numbers to account for the header
        row_nums  == [j \in 1..Len(rows) |-> numbered_rows[j][1] + 1]
        row_data  == [j \in 1..Len(rows) |-> numbered_rows[j][2]]
        buf       == IF PanicsWriting(row_data) THEN <<>>
                     ELSE write_records(FormatRows(row_data))
        new_lines == Lines(buf)
        numbered_lines ==
            [j \in 1..Min(Len(new_lines), Len(row_nums)) |->
                <<row_nums[j], new_lines[j]>>]
        previous  == OpenFile(fsys, as_csv(path.val))
        combined  == RunInjector(Lines(previous.val), InjectionNew(numbered_lines),
                                 0, <<>>)
    IN  IF ~path.ok THEN Outcome(fsys, path)
        ELSE IF \E j \in 1..Len(rows) : ~row_nums0[j].ok
        THEN Outcome(fsys, FirstError(row_nums0))
        \* the buffer is written before the file is opened
        ELSE IF PanicsWriting(row_data) THEN Outcome(fsys, Panicked)
        ELSE IF AcceptedRows(row_data) # row_data
        THEN Outcome(fsys, Err("UnequalLengths"))
        ELSE IF ~previous.ok THEN Outcome(fsys, previous)
        ELSE IF ~combined.ok THEN Outcome(fsys, combined)
        ELSE Outcome(FsPut(fsys, Canonical(as_csv(path.val)),
                           FileEntry(WriteLines(combined.val))),
                     Ok(<<>>))

(* Vec::sort *)
RECURSIVE SortNums(_)
SortNums(ns) ==
    IF ns = <<>> THEN <<>>
    ELSE LET sorted == SortNums(SubSeq(ns, 1, Len(ns) - 1))
             e      == ns[Len(ns)]
             k      == Cardinality({i \in 1..Len(sorted) : sorted[i] <= e})
         IN  SubSeq(sorted, 1, k) \o <<e>> \o SubSeq(sorted, k + 1, Len(sorted))

Reverse(ns) == [i \in 1..Len(ns) |-> ns[Len(ns) + 1 - i]]

(* The loop of delete_data over the enumerated lines: `queue` is           *)
(* delete_row_nums (its last element is the next target), `buf` the lines  *)
(* written so far.                                                         *)
RECURSIVE DeleteLoop(_, _, _, _)
DeleteLoop(lines, line_num, queue, buf) ==
    IF lines = <<>> THEN buf
    ELSE IF queue # <<>>
    THEN DeleteLoop(Tail(lines), line_num + 1,
                    IF queue[Len(queue)] = line_num
                    THEN SubSeq(queue, 1, Len(queue) - 1) ELSE queue,
                    buf)
    ELSE DeleteLoop(Tail(lines), line_num + 1, queue, Append(buf, Head(lines)))

(* CsvStore::delete_data: the buffer is built and dropped; no file is      *)
(* written.                                                                *)
delete_data(fsys, table_name, keys) ==
    LET path      == TablePathOf(table_name)
        row_nums0 == [j \in 1..Len(keys) |-> get_row_num(keys[j])]
        delete_row_nums ==
            Reverse(SortNums([j \in 1..Len(keys) |-> row_nums0[j].val]))
        orig_file == OpenFile(fsys, as_csv(path.val))
        buf       == WriteLines(DeleteLoop(Lines(orig_file.val), 0,
                                           delete_row_nums, <<>>))
    IN  IF ~path.ok THEN Outcome(fsys, path)
        ELSE IF \E j \in 1..Len(keys) : ~row_nums0[j].ok
        THEN Outcome(fsys, FirstError(row_nums0))
        ELSE IF ~orig_file.ok THEN Outcome(fsys, orig_file)
        ELSE [fs |-> fsys, res |-> Ok(<<>>), buf |-> buf]

VARIABLES
    base,        \* LineInjector.base: the base lines not yet read
    injection,   \* LineInjector.injection
    line_num,    \* LineInjector.line_num
    out,         \* the lines the iterator has returned so far
    ended,       \* the iterator has returned None
    given,       \* the arguments the injector was built from
    ident,       \* a table identifier (TableIdentifier.name) being resolved
    stage,       \* how far the identifier has been converted
    tname,       \* Result<TableName>: the identifier as a name
    tpath,       \* Result<TablePath>: the name as a path
    back,        \* Result<TableName>: the path converted back to a name
    fs,          \* the file system: path -> directory or file content
    last,        \* the last store operation: its arguments, the file
                 \* system before it and the result it returned
    nops,        \* the number of store calls made
    ignores      \* CsvStore.ignores: the configured ignore globs

injVars == <<base, injection, line_num, out, ended, given>>

nameVars == <<ident, stage, tname, tpath, back>>

storeVars == <<fs, last, nops, ignores>>

vars == <<injVars, nameVars, storeVars>>

(* The data directory exists and is empty; no operation has run.           *)
EmptyFs == [q \in Prefixes(DataDir) |-> DirEntry]

NoOp ==
    [op |-> "none", table |-> <<>>, arg |-> <<>>, pre |-> EmptyFs, res |-> Ok(<<>>),
     ret |-> Ok(<<>>)]

StoreIdle ==
    /\ fs = EmptyFs
    /\ last = NoOp
    /\ nops = 0
    /\ ignores = <<>>

(* The line injector at rest (in the specifications that do not run it).   *)
InjIdle ==
    /\ base = <<>>
    /\ injection = InjectionNew(<<>>)
    /\ line_num = 0
    /\ out = <<>>
    /\ ended = TRUE
    /\ given = [base |-> <<>>, numbered_lines |-> <<>>]

(* No identifier being resolved.                                           *)
NamesIdle ==
    /\ ident = <<>>
    /\ stage = "idle"
    /\ tname = None
    /\ tpath = None
    /\ back = None

BaseLines == {<<"a">>, <<"b">>}

InjectedLines == {<<"x">>, <<"y">>}

(* LineInjector::new over Injection::new, for every base stream and every  *)
(* list of numbered lines within the bounds.                               *)
InitInject ==
    \E b \in SeqsUpTo(BaseLines, MaxBase) :
    \E nl \in SeqsUpTo((0..MaxTarget) \X InjectedLines, MaxInj) :
        /\ base = b
        /\ injection = InjectionNew(nl)
        /\ line_num = 0
        /\ out = <<>>
        /\ ended = FALSE
        /\ given = [base |-> b, numbered_lines |-> nl]
        /\ NamesIdle
        /\ StoreIdle

(* Iterator::next: next_inner, then increment_line_num.  The caller (a for *)
(* loop or collect) stops calling at the first None.                       *)
InjectorNext ==
    /\ ~ended
    /\ LET r == next_inner(base, injection, line_num)
       IN  /\ base' = r.base
           /\ injection' = r.injection
           /\ ended' = ~r.item.some
           /\ out' = IF r.item.some /\ Len(out) < LineCap
                     THEN Append(out, r.item.val) ELSE out
    /\ line_num' = increment_line_num(line_num)
    /\ UNCHANGED <<given, nameVars, storeVars>>

NextInject == InjectorNext

SpecInject == InitInject /\ [][NextInject]_vars

(* The consuming loop calls next until it returns None.                    *)
FairSpecInject == SpecInject /\ WF_vars(InjectorNext)

(***************************************************************************)
(* Claims about the line injector (SpecInject, FairSpecInject)             *)
(***************************************************************************)
Targets(nl) == {nl[j][1] : j \in 1..Len(nl)}

DistinctTargets(nl) == Cardinality(Targets(nl)) = Len(nl)

MaxOfSet(S) == CHOOSE m \in S : \A n \in S : n <= m

(* The number of lines the claim says are emitted.                         *)
ExpectedLen(b, nl) ==
    IF nl = <<>> THEN Len(b) ELSE Max(Len(b), MaxOfSet(Targets(nl)) + 1)

(* Output line i (from 0) as the claim states it.                          *)
ExpectedLine(b, nl, i) ==
    IF i \in Targets(nl)
    THEN nl[CHOOSE j \in 1..Len(nl) : nl[j][1] = i][2]
    ELSE IF i < Len(b) THEN b[i + 1] ELSE DefaultLine

ExpectedOutput(b, nl) ==
    [i \in 1..ExpectedLen(b, nl) |-> ExpectedLine(b, nl, i - 1)]

IsPrefix(s, t) == Len(s) <= Len(t) /\ \A i \in 1..Len(s) : s[i] = t[i]

(* C4: for distinct target line numbers the iterator emits exactly         *)
(* max(L, maxTarget+1) lines (L for an empty injection): line i is the     *)
(* injected text if i is a target, else base line i if i < L, else a blank *)
(* line; what has been emitted so far is always a prefix of that output,   *)
(* and at end-of-stream it is the whole of it.                             *)
C4_InjectorOutput ==
    DistinctTargets(given.numbered_lines) =>
        LET expected == ExpectedOutput(given.base, given.numbered_lines)
        IN  /\ IsPrefix(out, expected)
            /\ ended => out = expected

(* A finished run that overwrote a base line and padded beyond the base.   *)
C4_Witness ==
    /\ ended
    /\ DistinctTargets(given.numbered_lines)
    /\ \E t \in Targets(given.numbered_lines) : t < Len(given.base)
    /\ \E t \in Targets(given.numbered_lines) : t > Len(given.base)
    /\ Len(out) = MaxOfSet(Targets(given.numbered_lines)) + 1

(* C6: iterating a LineInjector reaches end-of-stream for every finite     *)
(* base stream and every finite injection, repeated line numbers included. *)
C6_InjectorTerminates == <>ended

(***************************************************************************)
(* The identity resolver on its own: every identifier of up to MaxIdLen    *)
(* characters is converted to a name, the name to a path, and the path     *)
(* back to a name.                                                         *)
(***************************************************************************)
IdChars == {"t", Dot, Slash, "c", "s", "v"}

InitNames ==
    /\ InjIdle
    /\ StoreIdle
    /\ ident \in SeqsUpTo(IdChars, MaxIdLen)
    /\ stage = "identifier"
    /\ tname = None
    /\ tpath = None
    /\ back = None

(* TableIdentifier::new(table_name, data_dir).try_into(): TableName        *)
ResolveName ==
    /\ stage = "identifier"
    /\ tname' = IdentifierToName(TableIdentifierNew(ident, DataDir))
    /\ stage' = "name"
    /\ UNCHANGED <<ident, tpath, back, injVars, storeVars>>

(* name.try_into(): TablePath                                              *)
ResolvePath ==
    /\ stage = "name"
    /\ tpath' = NameToPath(tname.val)
    /\ stage' = "path"
    /\ UNCHANGED <<ident, tname, back, injVars, storeVars>>

(* path.try_into(): TableName, for a path that was built                   *)
ResolveBack ==
    /\ stage = "path"
    /\ tpath.ok
    /\ back' = PathToName(tpath.val)
    /\ stage' = "back"
    /\ UNCHANGED <<ident, tname, tpath, injVars, storeVars>>

NextNames == ResolveName \/ ResolvePath \/ ResolveBack

SpecNames == InitNames /\ [][NextNames]_vars

(***************************************************************************)
(* Claims about the identity resolver (SpecNames)                          *)
(***************************************************************************)
IsUnder(path, root) ==
    Len(root) <= Len(path) /\ SubSeq(path, 1, Len(root)) = root

(* The file or directory a name's parts lead to, as the operating system   *)
(* resolves it, lies outside the root.                                     *)
EscapesRoot(parts) ==
    ~IsUnder(Canonical(PathExtend(DataDir, parts)), DataDir)

(* C7: resolving a name or identifier whose path is not a descendant of    *)
(* the root fails (with PathEscapesRoot), so no operation is handed a path *)
(* outside the root.                                                       *)
C7_EscapingPathRejected ==
    (stage \in {"path", "back"} /\ EscapesRoot(tname.val.parts)) => ~tpath.ok

(* A name as the data model defines it: no empty component and no          *)
(* traversal segment ("." or "..").                                        *)
ValidName(parts) ==
    \A i \in 1..Len(parts) : parts[i] \notin {<<>>, CurDir, ParentDir}

(* The last component has no "." after its first character.                *)
LastHasNoExtension(parts) ==
    parts # <<>> /\ \A i \in 2..Len(parts[Len(parts)]) : parts[Len(parts)][i] # Dot

RoundTrips ==
    /\ stage \in {"path", "back"} => tpath.ok
    /\ stage = "back" => back.ok /\ back.val.parts = tname.val.parts

(* C8 as stated: for every name whose components are non-empty and not     *)
(* traversal segments, name -> path -> name succeeds and is the identity.  *)
C8_RoundTripAnyValidName ==
    (stage # "identifier" /\ ValidName(tname.val.parts)) => RoundTrips

(* C8 amended: the same for the names whose last component carries no      *)
(* extension.                                                              *)
C8_RoundTripNoExtension ==
    (stage # "identifier" /\ ValidName(tname.val.parts)
        /\ LastHasNoExtension(tname.val.parts)) => RoundTrips

(* A two-component name with a dotted namespace component that went round. *)
C8_Witness ==
    /\ stage = "back"
    /\ ValidName(tname.val.parts)
    /\ LastHasNoExtension(tname.val.parts)
    /\ Len(tname.val.parts) = 2
    /\ \E i \in 2..Len(tname.val.parts[1]) : tname.val.parts[1][i] = Dot
    /\ back.ok /\ back.val.parts = tname.val.parts

(***************************************************************************)
(* The store: one CsvStore over the data directory, called as the SQL      *)
(* engine calls it, one operation at a time (Spec).                        *)
(***************************************************************************)
TableIds == {<<"t">>}

ColumnLists == {<< <<"c">> >>, << <<"c">>, <<"d">> >>}

(* Column definitions (gluesql ColumnDef): a name and a declared type.     *)
ColumnDefs(names, ty) == [i \in 1..Len(names) |-> [name |-> names[i], data_type |-> ty]]

Schemas ==
    {[table_name |-> t, column_defs |-> ColumnDefs(cols, "Text")] :
        t \in TableIds, cols \in ColumnLists}

Values == {I64(<<"1">>), F64(<<"1", Dot, "5">>), Str(<<"a">>), Str(<<"a", Newline, "b">>)}

(* The rows of a given width passed to append_data and insert_data.        *)
RowsOfWidth(w) == {[i \in 1..w |-> IF i = 1 THEN v ELSE I64(<<"2">>)] : v \in Values}

(* The width of the rows the engine passes for a table: that of its header *)
(* (the engine checks rows against the schema it fetched).                 *)
WidthOf(fsys, t) ==
    LET f == OpenFile(fsys, as_csv(TablePathOf(t).val))
    IN  IF f.ok /\ Headers(f.val) # <<>> THEN Len(Headers(f.val)) ELSE 1

NonEmptySeqs(S, n) == SeqsUpTo(S, n) \ {<<>>}

Keys == {KeyI32(n) : n \in 0..MaxKey}

(* GlueError::StorageMsg(err.to_string())                                  *)
StorageMsg(msg) == [kind |-> "StorageMsg", msg |-> msg]

(* A mutant of to_glue_err: the error is boxed as GlueError::Storage.       *)
to_glue_err_boxed(res) ==
    IF res.ok THEN res ELSE Err([kind |-> "Storage", msg |-> res.err])

(* ToGlueError::to_glue_err for anyhow::Result                             *)
to_glue_err(res) == IF res.ok THEN res ELSE Err(StorageMsg(res.err))

(* IntoMutResult::into_mut_result                                          *)
into_mut_result(res, t) ==
    IF res.ok THEN Ok(<<t, res.val>>) ELSE Err(<<t, res.err>>)

(* The CsvStore instance (`storage` in impl StoreMut).                     *)
Storage == [data_dir |-> DataDir, ignores |-> ignores]

StoreMutOps ==
    {"insert_schema", "delete_schema", "append_data", "insert_data", "delete_data"}

(* What the caller of the Store / StoreMut method gets for the result of   *)
(* the inherent method: the mutations convert the error and pair it with   *)
(* the store; the reads convert each error where it arises (the items of   *)
(* the row iterator included); list_tables is not a trait method.  A call  *)
(* that does not return or panics gives the caller nothing.                *)
Returned(op, res) ==
    IF res \in {NoReturn, Panicked} THEN res
    ELSE IF op \in StoreMutOps THEN into_mut_result(to_glue_err(res), Storage)
    ELSE IF op = "scan_data" /\ res.ok
    THEN Ok([i \in 1..Len(res.val) |-> to_glue_err(res.val[i])])
    ELSE IF op = "list_tables" THEN res
    ELSE to_glue_err(res)

(* One call of the store by the engine: none is made after a call that    *)
(* does not return or that panicked.                                       *)
Call(op, t, arg, o) ==
    /\ nops < MaxOps
    /\ last.res \notin {NoReturn, Panicked}
    /\ fs' = o.fs
    /\ last' = [op |-> op, table |-> t, arg |-> arg, pre |-> fs, res |-> o.res,
                ret |-> Returned(op, o.res)]
    /\ nops' = nops + 1
    /\ UNCHANGED <<injVars, nameVars, ignores>>

Mutation(op, t, arg, o) == Call(op, t, arg, o)

(* A mutant of Read: the read empties the data directory.                  *)
Read_clearing(op, t, arg, res) == Call(op, t, arg, Outcome(EmptyFs, res))

(* A call of a read operation: none of them writes, creates or removes a   *)
(* file.                                                                   *)
Read(op, t, arg, res) == Call(op, t, arg, Outcome(fs, res))

(* StoreMut::insert_schema (create-table) *)
InsertSchema ==
    \E schema \in Schemas :
        Mutation("insert_schema", schema.table_name, schema, insert_schema(fs, schema))

(* StoreMut::delete_schema (drop-table) *)
DeleteSchema ==
    \E t \in TableIds : Mutation("delete_schema", t, <<>>, delete_schema(fs, t))

(* StoreMut::append_data (append-rows) *)
AppendData ==
    \E t \in TableIds :
    \E rows \in NonEmptySeqs(RowsOfWidth(WidthOf(fs, t)), MaxRows) :
        Mutation("append_data", t, rows, append_data(fs, t, rows))

(* StoreMut::insert_data (insert-rows) *)
InsertData ==
    \E t \in TableIds :
    \E rows \in NonEmptySeqs(Keys \X RowsOfWidth(WidthOf(fs, t)), MaxRows) :
        Mutation("insert_data", t, rows, insert_data(fs, t, rows))

(* StoreMut::delete_data (delete-rows) *)
DeleteData ==
    \E t \in TableIds :
    \E keys \in NonEmptySeqs(Keys, MaxRows) :
        Mutation("delete_data", t, keys, delete_data(fs, t, keys))

(* Store::fetch_schema (schema-lookup) *)
FetchSchema ==
    \E t \in TableIds : Read("fetch_schema", t, <<>>, fetch_schema(fs, t))

(* Store::fetch_data (fetch-row) *)
FetchData ==
    \E t \in TableIds :
    \E n \in 0..(MaxKey + 1) :
        Read("fetch_data", t, KeyI32(n), fetch_data(fs, t, KeyI32(n)))

(* Store::scan_data (scan-rows), the iterator drained *)
ScanData ==
    \E t \in TableIds : Read("scan_data", t, <<>>, scan_data(fs, t))

Init ==
    /\ InjIdle
    /\ NamesIdle
    /\ StoreIdle

Next ==
    \/ InsertSchema
    \/ DeleteSchema
    \/ AppendData
    \/ InsertData
    \/ DeleteData
    \/ FetchSchema
    \/ FetchData
    \/ ScanData

Spec == Init /\ [][Next]_vars

(***************************************************************************)
(* Properties of the store operations, over the last call made.            *)
(***************************************************************************)
(* The bytes of a table's file ("none" when there is no file).             *)
FileOf(fsys, t) == OpenFile(fsys, as_csv(TablePathOf(t).val))

(* The line a row is written as by the csv writer, without the line feed.  *)
Encoding(row) ==
    LET bytes == write_record(FormatRow(row))
    IN  SubSeq(bytes, 1, Len(bytes) - 1)

(* The elements of a sequence whose zero-based positions are not in ks.    *)
RECURSIVE Survivors(_, _, _)
Survivors(items, ks, pos) ==
    IF items = <<>> THEN <<>>
    ELSE (IF pos \in ks THEN <<>> ELSE <<Head(items)>>)
         \o Survivors(Tail(items), ks, pos + 1)

(* The file ends inside a quoted field that was never closed: a line feed  *)
(* added to it would be read as part of that field.                        *)
EndsInQuotedField(data) == CsvRecords(data \o <<Newline>>) # CsvRecords(data)

(* C1: for a table with n data rows and one keyed row (k, r), 0 <= k < n,  *)
(* insert_data leaves the file with the same number of lines, with the     *)
(* encoding of r at line k+1 and every other line as it was.               *)
C1_InsertReplacesOneLine ==
    (/\ last.op = "insert_data"
     /\ Len(last.arg) = 1
     /\ FileOf(last.pre, last.table).ok
     /\ last.arg[1][1].n < Len(Lines(FileOf(last.pre, last.table).val)) - 1)
    => LET before == Lines(FileOf(last.pre, last.table).val)
           after  == Lines(FileOf(fs, last.table).val)
           k      == last.arg[1][1].n
       IN  /\ last.res = Ok(<<>>)
           /\ FileOf(fs, last.table).ok
           /\ Len(after) = Len(before)
           /\ after[k + 2] = Encoding(last.arg[1][2])
           /\ \A i \in 1..Len(before) : i # k + 2 => after[i] = before[i]

(* C2: after delete_data(name, keys) has succeeded the table holds the     *)
(* header and exactly the data rows whose ordinals are not in keys, in     *)
(* their original order.                                                   *)
C2_DeleteRemovesTargets ==
    (last.op = "delete_data" /\ last.res.ok)
    => LET before == FileOf(last.pre, last.table).val
           after  == FileOf(fs, last.table)
           ks     == {last.arg[j].n : j \in 1..Len(last.arg)}
       IN  /\ after.ok
           /\ Headers(after.val) = Headers(before)
           /\ Records(after.val) = Survivors(Records(before), ks, 0)

(* C5: when the two keyed rows of one insert_data call target the same     *)
(* ordinal, the call succeeds and the file holds one of them at that line. *)
C5_TieKeepsOne ==
    (/\ last.op = "insert_data"
     /\ Len(last.arg) = 2
     /\ last.arg[1][1] = last.arg[2][1]
     /\ FileOf(last.pre, last.table).ok)
    => LET after == Lines(FileOf(fs, last.table).val)
           k     == last.arg[1][1].n
       IN  /\ last.res = Ok(<<>>)
           /\ k + 2 <= Len(after)
           /\ after[k + 2] \in {Encoding(last.arg[1][2]), Encoding(last.arg[2][2])}

(* The value scan_data gives back for an appended value whose kind is the  *)
(* kind of the column type inferred after the append; any value otherwise. *)
ComesBackAs(passed, typ, got) ==
    /\ (passed.k = "Str" /\ typ = "String") => got = passed
    /\ (passed.k = "F64" /\ typ = "Float") => got = passed
    /\ (passed.k = "I64" /\ typ = "Int") => got = I32(passed.repr)

C10_FetchAgreesWithScan ==
    /\ last.op = "fetch_data"
       => LET sc == scan_data(last.pre, last.table)
              n  == Len(Records(FileOf(last.pre, last.table).val))
              k  == last.arg.n
          IN  IF ~sc.ok THEN ~last.res.ok
              ELSE /\ Len(sc.val) = n
                   /\ k >= n <=> last.res = Ok(None)
                   /\ k < n => IF sc.val[k + 1].ok
                               THEN /\ sc.val[k + 1].val[1] = last.arg
                                    /\ last.res = Ok(Some(sc.val[k + 1].val[2]))
                               ELSE ~last.res.ok
    /\ (last.op = "scan_data" /\ last.res.ok)
       => LET recs  == Records(FileOf(last.pre, last.table).val)
              types == ColTypes(get_column_types_for_table(
                                    last.pre, TablePathOf(last.table).val).val)
          IN  /\ Len(last.res.val) = Len(recs)
              /\ \A i \in 1..Len(recs) :
                    last.res.val[i].ok
                    => /\ last.res.val[i].val[1] = KeyI32(i - 1)
                       /\ Ok(last.res.val[i].val[2])
                            = read_csv_record(recs[i].val, types)

(* The second row of a table was fetched.                                  *)
C10_Witness ==
    /\ last.op = "fetch_data"
    /\ last.arg = KeyI32(1)
    /\ last.res.ok
    /\ last.res.val.some
    /\ fetch_data(last.pre, last.table, KeyI32(2)) = Ok(None)

(***************************************************************************)
(* Schema inference over the files a data directory can hold: a header and *)
(* up to MaxInferRows data rows of its width (SpecInfer).                  *)
(***************************************************************************)
(* The least decimal integer above the 64-bit signed range.                *)
BeyondI64 == SubSeq(I64MaxDigits, 1, Len(I64MaxDigits) - 1) \o <<"8">>

InferFields == {<<"1">>, <<"1", Dot, "5">>, <<"a">>, BeyondI64}

InferRows(w) ==
    IF w = 1 THEN {<<f>> : f \in InferFields}
    ELSE {<<f, g>> : f \in InferFields, g \in {<<"1">>, <<"a">>}}

InferFiles ==
    UNION {{write_records(<<cols>> \o rows) :
                rows \in SeqsUpTo(InferRows(Len(cols)), MaxInferRows)} :
           cols \in ColumnLists}

(* The store opened over a data directory that holds one table file.       *)
InitInfer ==
    /\ InjIdle
    /\ NamesIdle
    /\ \E t \in TableIds, data \in InferFiles :
          fs = FsPut(EmptyFs, Canonical(as_csv(TablePathOf(t).val)), FileEntry(data))
    /\ last = NoOp
    /\ nops = 0
    /\ ignores = <<>>

NextInfer == FetchSchema

SpecInfer == InitInfer /\ [][NextInfer]_vars

(* The greatest of a set of column types under Int < Float < String; Int   *)
(* for no type at all.                                                     *)
MaxType(S) ==
    IF "String" \in S THEN "String" ELSE IF "Float" \in S THEN "Float" ELSE "Int"

RowOrders(n) ==
    {p \in [1..n -> 1..n] : \A i, j \in 1..n : p[i] = p[j] => i = j}

(* C9: for a file with a header and data rows of the header's width, the   *)
(* type inferred for each column is the maximum under Int < Float < String *)
(* of the types of the column's values (Int if the value parses as i64,    *)
(* else Float if it parses as f64, else String), fetch_schema reports it,  *)
(* and the same types are inferred for every reordering of the data rows.  *)
C9_InferredTypeIsMax ==
    (/\ last.op = "fetch_schema"
     /\ FileOf(last.pre, last.table).ok
     /\ \A i \in 1..Len(Records(FileOf(last.pre, last.table).val)) :
           Records(FileOf(last.pre, last.table).val)[i].ok)
    => LET path  == TablePathOf(last.table).val
           data  == FileOf(last.pre, last.table).val
           cols  == Headers(data)
           recs  == Records(data)
           n     == Len(recs)
           types == get_column_types_for_table(last.pre, path)
           reordered(p) ==
               FsPut(last.pre, Canonical(as_csv(path)),
                     FileEntry(write_records(<<cols>> \o [i \in 1..n |-> recs[p[i]].val])))
       IN  /\ types.ok
           /\ Len(types.val) = Len(cols)
           /\ \A c \in 1..Len(cols) :
                 types.val[c] =
                     <<cols[c], MaxType({min_column_type(recs[i].val[c]) : i \in 1..n})>>
           /\ last.res.ok /\ last.res.val.some
           /\ \A c \in 1..Len(cols) :
                 last.res.val.val.column_defs[c] =
                     [name |-> cols[c], data_type |-> DataTypeOf(types.val[c][2])]
           /\ \A p \in RowOrders(n) :
                 get_column_types_for_table(reordered(p), path) = types

(* The schema of a two-column file was inferred from three rows whose      *)
(* first column holds a text, then an integer, then a float.               *)
C9_Witness ==
    /\ last.op = "fetch_schema"
    /\ last.res.ok /\ last.res.val.some
    /\ Len(last.res.val.val.column_defs) = 2
    /\ last.res.val.val.column_defs[1].data_type = "Text"
    /\ last.res.val.val.column_defs[2].data_type = "Int32"
    /\ LET recs == Records(FileOf(last.pre, last.table).val)
       IN  /\ Len(recs) = 3
           /\ min_column_type(recs[1].val[1]) = "String"
           /\ min_column_type(recs[2].val[1]) = "Int"
           /\ min_column_type(recs[3].val[1]) = "Float"

(***************************************************************************)
(* The store over a namespace: a table "n" and a table "t" inside the      *)
(* namespace directory of the same base name, "n/t" (SpecNs).              *)
(***************************************************************************)
NsTableIds == {<<"n">>, <<"n", Slash, "t">>}

DeclaredTypes == {"Int32", "Float", "Text"}

NsSchemas ==
    {[table_name |-> t, column_defs |-> ColumnDefs(<<<<"c">>>>, ty)] :
        t \in NsTableIds, ty \in DeclaredTypes}
    \cup {[table_name |-> t, column_defs |-> ColumnDefs(<<<<"c">>, <<"d">>>>, "Float")] :
             t \in NsTableIds}

NsValues == {I64(<<"1">>), Str(<<"a">>), Date(<<"d">>)}

NsRows(w) == {[i \in 1..w |-> v] : v \in NsValues}

NsInsertSchema ==
    \E schema \in NsSchemas :
        Mutation("insert_schema", schema.table_name, schema, insert_schema(fs, schema))

NsDeleteSchema ==
    \E t \in NsTableIds : Mutation("delete_schema", t, <<>>, delete_schema(fs, t))

NsAppendData ==
    \E t \in NsTableIds :
    \E rows \in NonEmptySeqs(NsRows(WidthOf(fs, t)), MaxRows) :
        Mutation("append_data", t, rows, append_data(fs, t, rows))

NsInsertData ==
    \E t \in NsTableIds :
    \E key \in Keys, row \in NsRows(WidthOf(fs, t)) :
        Mutation("insert_data", t, <<<<key, row>>>>, insert_data(fs, t, <<<<key, row>>>>))

NsDeleteData ==
    \E t \in NsTableIds :
    \E key \in Keys :
        Mutation("delete_data", t, <<key>>, delete_data(fs, t, <<key>>))

NsFetchSchema ==
    \E t \in NsTableIds : Read("fetch_schema", t, <<>>, fetch_schema(fs, t))

NsScanData ==
    \E t \in NsTableIds : Read("scan_data", t, <<>>, scan_data(fs, t))

NextNs ==
    \/ NsInsertSchema
    \/ NsDeleteSchema
    \/ NsAppendData
    \/ NsInsertData
    \/ NsDeleteData
    \/ NsFetchSchema
    \/ NsScanData

SpecNs == Init /\ [][NextNs]_vars

(* The names of column definitions, in order.                              *)
ColumnNames(column_defs) == [i \in 1..Len(column_defs) |-> column_defs[i].name]

(* C11: insert_schema(schema) succeeds, on an existing table too, and      *)
(* leaves the table's file holding only the header row of the schema's     *)
(* column names in order: fetch_schema then returns those names in that    *)
(* order, scan_data yields no row, and every directory above the file      *)
(* exists.                                                                 *)
C11_CreateLeavesHeaderOnly ==
    last.op = "insert_schema"
    => LET t      == last.arg.table_name
           names  == ColumnNames(last.arg.column_defs)
           path   == as_csv(TablePathOf(t).val)
           schema == fetch_schema(fs, t)
       IN  /\ last.res = Ok(<<>>)
           /\ FileOf(fs, t) = Ok(write_record(names))
           /\ Headers(FileOf(fs, t).val) = names
           /\ Records(FileOf(fs, t).val) = <<>>
           /\ schema.ok /\ schema.val.some
           /\ ColumnNames(schema.val.val.column_defs) = names
           /\ scan_data(fs, t) = Ok(<<>>)
           /\ \A d \in Prefixes(Parent(Canonical(path))) : IsDir(fs, d)

(* The table n/t was created again over a file that held a data row, in a  *)
(* namespace directory that the first creation had to make.                *)
C11_Witness ==
    /\ last.op = "insert_schema"
    /\ last.res.ok
    /\ last.arg.table_name = <<"n", Slash, "t">>
    /\ FileOf(last.pre, last.arg.table_name).ok
    /\ Len(Records(FileOf(last.pre, last.arg.table_name).val)) >= 1
    /\ IsDir(fs, DataDir \o <<<<"n">>>>)

(* The table has no backing file.                                          *)
NoFile(fsys, t) == ~FileOf(fsys, t).ok

(* A successful delete_schema removed the table's file and nothing else.   *)
DropRemovesOnlyTheFile ==
    (last.op = "delete_schema" /\ last.res.ok)
    => /\ NoFile(fs, last.table)
       /\ fetch_schema(fs, last.table) = Ok(None)
       /\ \A q \in DOMAIN last.pre :
             q # Canonical(as_csv(TablePathOf(last.table).val))
             => q \in DOMAIN fs /\ fs[q] = last.pre[q]

(* A table without a file stays without one, and unknown to fetch_schema,  *)
(* through every call that is not an insert_schema of that table.          *)
StaysDroppedUntilCreated ==
    \A t \in NsTableIds :
        (NoFile(fs, t) /\ ~(last'.op = "insert_schema" /\ last'.table = t))
        => (NoFile(fs', t) /\ fetch_schema(fs', t) = Ok(None))

(* C12: after a successful delete_schema(name) the table's file does not   *)
(* exist and fetch_schema(name) returns none, in every later state until   *)
(* an insert_schema(name); a namespace directory of the same base name and *)
(* what it holds are left in place.                                        *)
C12_DroppedUntilCreated ==
    [](DropRemovesOnlyTheFile) /\ [][StaysDroppedUntilCreated]_vars

(* The table n was dropped while the namespace directory n held the table  *)
(* n/t, which is still there.                                              *)
C12_Witness ==
    /\ last.op = "delete_schema"
    /\ last.res.ok
    /\ last.table = <<"n">>
    /\ IsDir(fs, DataDir \o <<<<"n">>>>)
    /\ FileOf(fs, <<"n", Slash, "t">>).ok

(***************************************************************************)
(* Listing and reading a data directory found as it is: up to MaxChildren  *)
(* of a namespace directory, a table file, a backup file, a directory with *)
(* a dot in its name and a file without extension, under one of a few      *)
(* ignore lists (SpecList).                                                *)
(***************************************************************************)
MaxChildren == 3

Bak == <<"b", "a", "k">>

Children ==
    {[name |-> <<"n">>, entry |-> DirEntry],
     [name |-> <<"t", Dot>> \o CsvExt,
      entry |-> FileEntry(<<"c", Newline, "1", Newline>>)],
     [name |-> <<"t", Dot>> \o Bak, entry |-> FileEntry(<<"x", Newline>>)],
     [name |-> <<"a", Dot, "b">>, entry |-> DirEntry],
     [name |-> <<"r">>, entry |-> FileEntry(<<"x", Newline>>)]}

IgnoreLists == {<<>>, <<<<Star, Dot>> \o Bak>>, <<<<Star, Dot>> \o Bak, <<"r">>>>}

(* The data directory holding the given children.                          *)
DirWith(children) ==
    [q \in DOMAIN EmptyFs \cup {Append(DataDir, c.name) : c \in children} |->
        IF q \in DOMAIN EmptyFs THEN DirEntry
        ELSE (CHOOSE c \in children : Append(DataDir, c.name) = q).entry]

InitList ==
    /\ InjIdle
    /\ NamesIdle
    /\ \E children \in SUBSET Children :
          /\ Cardinality(children) <= MaxChildren
          /\ fs = DirWith(children)
    /\ ignores \in IgnoreLists
    /\ last = NoOp
    /\ nops = 0

ListDirs == {<<>>, <<<<"n">>>>}

(* The orders in which read_dir can give a set of entries.                 *)
Orders(S) ==
    {o \in [1..Cardinality(S) -> S] : \A i, j \in 1..Cardinality(S) : o[i] = o[j] => i = j}

(* CsvStore::list_tables *)
ListTables ==
    \E parts \in ListDirs :
        LET dir     == TableNameNew(parts, DataDir)
            entries == read_dir(fs, as_dir(NameToPath(dir).val))
        IN  \E order \in (IF entries.ok THEN Orders(entries.val) ELSE {<<>>}) :
                Read("list_tables", parts, order, list_tables(fs, ignores, dir, order))

NextList ==
    \/ ListTables
    \/ FetchSchema
    \/ FetchData
    \/ ScanData

SpecList == InitList /\ [][NextList]_vars

(* The bare file name of a directory entry.                                *)
BareName(entry) == entry[Len(entry)]

(* Some configured glob matches the entry's bare file name.                *)
Ignored(entry) == \E i \in 1..Len(ignores) : GlobMatch(ignores[i], BareName(entry))

IsSubdirectory(fsys, entry) == IsDir(fsys, entry)

(* A regular file whose name ends in ".csv".                               *)
IsCsvFile(fsys, entry) ==
    /\ IsFile(fsys, entry)
    /\ Len(BareName(entry)) > Len(CsvExt)
    /\ SubSeq(BareName(entry), Len(BareName(entry)) - Len(CsvExt), Len(BareName(entry)))
         = <<Dot>> \o CsvExt

(* The entries of an enumeration that no glob matches, in order.           *)
RECURSIVE NotIgnored(_)
NotIgnored(order) ==
    IF order = <<>> THEN <<>>
    ELSE (IF Ignored(Head(order)) THEN <<>> ELSE <<Head(order)>>)
         \o NotIgnored(Tail(order))

(* C13: listing a namespace whose children that match no ignore glob are   *)
(* subdirectories and regular .csv files succeeds and returns exactly one  *)
(* node for each of them (a Dir node for a subdirectory, a Table node for  *)
(* a .csv file) and none for a child that a glob matches.                  *)
C13_ListsEveryChildNotIgnored ==
    (/\ last.op = "list_tables"
     /\ \A i \in 1..Len(last.arg) :
           \/ Ignored(last.arg[i])
           \/ IsSubdirectory(last.pre, last.arg[i])
           \/ IsCsvFile(last.pre, last.arg[i])
     /\ read_dir(last.pre, DataDir \o last.table).ok)
    => LET listed == NotIgnored(last.arg)
       IN  /\ last.res.ok
           /\ Len(last.res.val) = Len(listed)
           /\ \A i \in 1..Len(listed) :
                 last.res.val[i].data.kind =
                     IF IsSubdirectory(last.pre, listed[i]) THEN "Dir" ELSE "Table"

(* C14: if a child of the listed namespace that no glob matches is neither *)
(* a subdirectory nor a regular .csv file, list_tables returns an error    *)
(* (no list of nodes), wherever the child comes in the enumeration.        *)
C14_BadChildFailsListing ==
    (/\ last.op = "list_tables"
     /\ \E i \in 1..Len(last.arg) :
           /\ ~Ignored(last.arg[i])
           /\ ~IsSubdirectory(last.pre, last.arg[i])
           /\ ~IsCsvFile(last.pre, last.arg[i]))
    => ~last.res.ok

(* A directory was listed whose last entry in enumeration order, after a   *)
(* namespace and a table, is a file without extension that no glob         *)
(* matches.                                                                *)
C14_Witness ==
    /\ last.op = "list_tables"
    /\ Len(last.arg) = 3
    /\ IsSubdirectory(last.pre, last.arg[1])
    /\ IsCsvFile(last.pre, last.arg[2])
    /\ BareName(last.arg[3]) = <<"r">>
    /\ ~Ignored(last.arg[3])
    /\ ~last.res.ok

(* A row of the call holds a value of a kind format_value has no text for. *)
HasTodoValue(op, arg) ==
    \/ op = "append_data"
       /\ \E j \in 1..Len(arg) : \E i \in 1..Len(arg[j]) : Todo(arg[j][i])
    \/ op = "insert_data"
       /\ \E j \in 1..Len(arg) : \E i \in 1..Len(arg[j][2]) : Todo(arg[j][2][i])

(* C15: no call of the store panics: each returns a value, Ok or an error; *)
(* and append_data or insert_data given a row that holds a date (or        *)
(* another kind beyond numbers and text) returns an error and leaves the   *)
(* files as they were.                                                     *)
C15_FailuresAreReturned ==
    /\ last.res # Panicked
    /\ HasTodoValue(last.op, last.arg) => (~last.res.ok /\ fs = last.pre)

(* Every column of the schema fetch_schema returns for the table is Int32. *)
ReportsAllInteger(fsys, t, width) ==
    LET found == fetch_schema(fsys, t)
    IN  /\ found.ok /\ found.val.some
        /\ Len(found.val.val.column_defs) = width
        /\ \A i \in 1..width : found.val.val.column_defs[i].data_type = "Int32"

(* C16: a table file that holds a header and no data row is inferred as    *)
(* Int32 in every column; so after a successful insert_schema, fetch_schema *)
(* reports Int32 for each column of the schema whatever data types the     *)
(* schema declared.                                                        *)
C16_NoRowsInfersInteger ==
    /\ \A t \in NsTableIds :
          (FileOf(fs, t).ok /\ Records(FileOf(fs, t).val) = <<>>)
          => ReportsAllInteger(fs, t, Len(Headers(FileOf(fs, t).val)))
    /\ (last.op = "insert_schema" /\ last.res.ok)
       => ReportsAllInteger(fs, last.table, Len(last.arg.column_defs))

(* A table of two columns declared Float was created again over its file,  *)
(* and its schema is reported with two Int32 columns.                      *)
C16_Witness ==
    /\ last.op = "insert_schema"
    /\ last.res.ok
    /\ Len(last.arg.column_defs) = 2
    /\ \A i \in 1..2 : last.arg.column_defs[i].data_type = "Float"
    /\ FileOf(last.pre, last.table).ok
    /\ ReportsAllInteger(fs, last.table, 2)

(* How general a field's text is: 0 if it reads as a 64-bit integer, 1 if  *)
(* it reads as a float only, 2 otherwise.                                  *)
Generality(field) ==
    IF ParsesI64(field) THEN 0 ELSE IF ParsesF64(field) THEN 1 ELSE 2

(* The column types inferred for a table file with the given content.      *)
TypesOfData(t, data) ==
    get_column_types_for_table(
        FsPut(EmptyFs, Canonical(as_csv(TablePathOf(t).val)), FileEntry(data)),
        TablePathOf(t).val)

(* The file with the value at row r, column c replaced.                    *)
Replaced(cols, recs, r, c, field) ==
    write_records(<<cols>> \o
        [i \in 1..Len(recs) |->
            IF i = r THEN [recs[i].val EXCEPT ![c] = field] ELSE recs[i].val])

(* Column by column, the types `after` are at least the types `before`.    *)
NotNarrower(before, after) ==
    /\ before.ok /\ after.ok
    /\ Len(after.val) = Len(before.val)
    /\ \A c \in 1..Len(before.val) :
          /\ after.val[c][1] = before.val[c][1]
          /\ TypeRank(after.val[c][2]) >= TypeRank(before.val[c][2])

ReadOps == {"fetch_schema", "fetch_data", "scan_data", "list_tables"}

(* A read leaves every file and directory as it was, and with them the     *)
(* schema a lookup of any table would return.                              *)
ReadKeepsFiles ==
    last'.op \in ReadOps
    => /\ fs' = fs
       /\ \A t \in TableIds : fetch_schema(fs', t) = fetch_schema(fs, t)
       /\ (last.op = "fetch_schema" /\ last'.op = "fetch_schema"
           /\ last'.table = last.table) => last'.res = last.res

(* The schema a lookup returned is the schema inferred from the file as it *)
(* is now.                                                                 *)
LookupIsCurrent ==
    last.op = "fetch_schema" => last.res = fetch_schema(fs, last.table)

GivenPath(name) == PathExtend(name.root, name.parts)

(* The path with ".csv" added to its file name.                            *)
PlusCsv(path) == [path EXCEPT ![Len(path)] = @ \o <<Dot>> \o CsvExt]

(* The file name is a base name followed by ".csv", the base name being no *)
(* traversal segment and having no extension of its own.                   *)
IsBasePlusCsv(path) ==
    /\ Extension(path) = Some(CsvExt)
    /\ FileStem(FileName(path).val) \notin {CurDir, ParentDir}
    /\ ExtDot(FileStem(FileName(path).val)) = 0

(* C19: a table path built from a path or from a name whose file name has  *)
(* an extension other than csv is refused ("table path with non-csv        *)
(* extension"); a file name without extension or with the extension csv is *)
(* accepted; and a base name p and the file name p.csv both resolve to the *)
(* file p.csv.                                                             *)
C19_ExtensionRule ==
    (stage \in {"path", "back"} /\ FileName(GivenPath(tname.val)).some)
    => LET asked == GivenPath(tname.val)
       IN  /\ (Extension(asked).some /\ Extension(asked).val # CsvExt)
              => tpath = Err("table path with non-csv extension")
           /\ ~Extension(asked).some
              => /\ tpath.ok
                 /\ as_csv(tpath.val) = PlusCsv(asked)
                 /\ try_new(PlusCsv(asked), DataDir).ok
                 /\ as_csv(try_new(PlusCsv(asked), DataDir).val) = as_csv(tpath.val)
           /\ Extension(asked) = Some(CsvExt) => tpath.ok
           /\ IsBasePlusCsv(asked)
              => /\ as_csv(tpath.val) = asked
                 /\ try_new(WithExtension(asked, <<>>), DataDir).ok
                 /\ as_csv(try_new(WithExtension(asked, <<>>), DataDir).val) = asked

(* The identifier "t.csv" was resolved to the file "t.csv" of the data     *)
(* directory, as the identifier "t" is.                                    *)
C19_Witness ==
    /\ stage = "path"
    /\ ident = <<"t", Dot, "c", "s", "v">>
    /\ tpath.ok
    /\ as_csv(tpath.val) = DataDir \o <<ident>>
    /\ as_csv(IdentifierToPath(TableIdentifierNew(<<"t">>, DataDir)).val) = as_csv(tpath.val)

(***************************************************************************)
(* The store called with arguments and over files that make its primitives *)
(* fail: a name with a foreign extension, a missing file, a record of the  *)
(* wrong length, an integer beyond i32, a negative and a text key          *)
(* (SpecErr).                                                              *)
(***************************************************************************)
ErrTableIds == {<<"t">>, <<"t", Dot, "x">>}

KeyStr(str) == [k |-> "Str", s |-> str]

ErrKeys == {KeyI32(0), KeyI32(-1), KeyStr(<<"k">>)}

(* The least decimal integer above the 32-bit signed range.                *)
BeyondI32 == SubSeq(I32MaxDigits, 1, Len(I32MaxDigits) - 1) \o <<"8">>

ErrFiles ==
    {write_record(<<<<"c">>>>) \o write_record(<<<<"1">>>>),
     write_record(<<<<"c">>>>) \o write_record(<<<<"1">>, <<"2">>>>),
     write_record(<<<<"c">>>>) \o write_record(<<BeyondI32>>)}

InitErr ==
    /\ InjIdle
    /\ NamesIdle
    /\ \/ fs = EmptyFs
       \/ \E data \in ErrFiles :
             fs = FsPut(EmptyFs, Canonical(as_csv(TablePathOf(<<"t">>).val)),
                        FileEntry(data))
    /\ last = NoOp
    /\ nops = 0
    /\ ignores = <<>>

ErrInsertSchema ==
    \E t \in ErrTableIds :
        LET schema == [table_name |-> t, column_defs |-> ColumnDefs(<<<<"c">>>>, "Text")]
        IN  Mutation("insert_schema", t, schema, insert_schema(fs, schema))

ErrDeleteSchema ==
    \E t \in ErrTableIds : Mutation("delete_schema", t, <<>>, delete_schema(fs, t))

ErrAppendData ==
    \E t \in ErrTableIds :
        LET rows == <<<<I64(<<"1">>)>>>>
        IN  Mutation("append_data", t, rows, append_data(fs, t, rows))

ErrInsertData ==
    \E t \in ErrTableIds, key \in ErrKeys :
        LET rows == <<<<key, <<I64(<<"1">>)>>>>>>
        IN  Mutation("insert_data", t, rows, insert_data(fs, t, rows))

ErrDeleteData ==
    \E t \in ErrTableIds, key \in ErrKeys :
        Mutation("delete_data", t, <<key>>, delete_data(fs, t, <<key>>))

ErrFetchSchema ==
    \E t \in ErrTableIds : Read("fetch_schema", t, <<>>, fetch_schema(fs, t))

ErrFetchData ==
    \E t \in ErrTableIds, key \in ErrKeys :
        Read("fetch_data", t, key, fetch_data(fs, t, key))

ErrScanData ==
    \E t \in ErrTableIds : Read("scan_data", t, <<>>, scan_data(fs, t))

NextErr ==
    \/ ErrInsertSchema
    \/ ErrDeleteSchema
    \/ ErrAppendData
    \/ ErrInsertData
    \/ ErrDeleteData
    \/ ErrFetchSchema
    \/ ErrFetchData
    \/ ErrScanData

SpecErr == InitErr /\ [][NextErr]_vars

IsStorageMsg(err) == err.kind = "StorageMsg"

(* C20: a failure of a store method (a name that does not resolve, a file  *)
(* that cannot be opened, a malformed record, a value that does not parse, *)
(* an invalid key) is returned as GlueError::StorageMsg; and each of the   *)
(* five StoreMut methods returns the store with its result, in the error   *)
(* as in the success.                                                      *)
C20_FailuresAreStorageMsg ==
    /\ last.op \in StoreMutOps
       => /\ last.res.ok => last.ret = Ok(<<Storage, <<>>>>)
          /\ ~last.res.ok
             => /\ ~last.ret.ok
                /\ last.ret.err[1] = Storage
                /\ IsStorageMsg(last.ret.err[2])
    /\ last.op \in {"fetch_schema", "fetch_data", "scan_data"}
       => /\ last.ret.ok = last.res.ok
          /\ ~last.res.ok => IsStorageMsg(last.ret.err)
    /\ (last.op = "scan_data" /\ last.res.ok)
       => \A i \in 1..Len(last.ret.val) :
             ~last.ret.val[i].ok => IsStorageMsg(last.ret.val[i].err)

(* An insert_data with a negative key failed after an earlier call had     *)
(* failed, and the store came back with the storage error.                 *)
C20_Witness ==
    /\ last.op = "insert_data"
    /\ nops >= 2
    /\ last.arg[1][1] = KeyI32(-1)
    /\ ~last.ret.ok
    /\ last.ret.err = <<Storage, StorageMsg("Invalid row number")>>

(* C21: the buffer delete_data builds from the lines of the file holds the *)
(* header line and every data line whose ordinal (line number - 1) is not  *)
(* among the keys, in order, and no other line: whether targets are still  *)
(* pending, the queue has been emptied, or keys lie beyond the end.        *)
C21_CopyKeepsLinesNotDeleted ==
    (last.op = "delete_data" /\ last.res.ok)
    => LET lines == Lines(FileOf(last.pre, last.table).val)
           ks    == {last.arg[j].n : j \in 1..Len(last.arg)}
           buf   == delete_data(last.pre, last.table, last.arg).buf
       IN  Lines(buf) = <<Head(lines)>> \o Survivors(Tail(lines), ks, 0)

(* The keyed rows of the call have pairwise distinct ordinals.             *)
DistinctOrdinals(rows) ==
    \A i, j \in 1..Len(rows) : rows[i][1].n = rows[j][1].n => i = j

(* C22: an insert_data whose keyed rows have pairwise distinct ordinals    *)
(* succeeds, leaves the encoded text of each row at file line (ordinal +   *)
(* 1), and leaves the same file for every reordering of its keyed rows.    *)
C22_InsertKeepsPairing ==
    (/\ last.op = "insert_data"
     /\ DistinctOrdinals(last.arg)
     /\ FileOf(last.pre, last.table).ok)
    => LET after == Lines(FileOf(fs, last.table).val)
           n     == Len(last.arg)
       IN  /\ last.res = Ok(<<>>)
           /\ \A j \in 1..n :
                 /\ last.arg[j][1].n + 2 <= Len(after)
                 /\ after[last.arg[j][1].n + 2] = Encoding(last.arg[j][2])
           /\ \A p \in RowOrders(n) :
                 insert_data(last.pre, last.table, [j \in 1..n |-> last.arg[p[j]]]).fs
                   = fs

(* The row a reader decodes from the text of `row` under the column types  *)
(* inferred for the table.                                                 *)
DecodingOf(fsys, t, row) ==
    read_csv_record(FormatRow(row),
                    ColTypes(get_column_types_for_table(fsys, TablePathOf(t).val).val))

(* C23: after an insert_data of a single keyed row (k, r) has succeeded,   *)
(* fetch_data(k) returns the decoding of r, for k within the table's row   *)
(* count and for k beyond it.                                              *)
C23_FetchReturnsInsertedRow ==
    (/\ last.op = "insert_data"
     /\ Len(last.arg) = 1
     /\ last.res.ok)
    => /\ get_column_types_for_table(fs, TablePathOf(last.table).val).ok
       /\ DecodingOf(fs, last.table, last.arg[1][2]).ok
       /\ fetch_data(fs, last.table, last.arg[1][1])
            = Ok(Some(DecodingOf(fs, last.table, last.arg[1][2]).val))

(* The table's file can be read and every record has the header's width.   *)
WellFormed(fsys, t) ==
    /\ TablePathOf(t).ok
    /\ FileOf(fsys, t).ok
    /\ \A i \in 1..Len(Records(FileOf(fsys, t).val)) :
          Records(FileOf(fsys, t).val)[i].ok

(* C24: on a well-formed file fetch_data and scan_data do not fail on a    *)
(* value: fetch_data with a valid key returns a row or none, and every     *)
(* item scan_data yields is a row, each value decoded under the type       *)
(* inferred for its column.                                                *)
C24_InferredTypesDecode ==
    /\ (last.op = "scan_data" /\ WellFormed(last.pre, last.table))
       => /\ last.res.ok
          /\ \A i \in 1..Len(last.res.val) : last.res.val[i].ok
    /\ (last.op = "fetch_data" /\ WellFormed(last.pre, last.table)
        /\ get_row_num(last.arg).ok)
       => last.res.ok

RowOps == {"append_data", "insert_data", "delete_data"}

(* The column names fetch_schema reports for the table.                    *)
ReportedNames(fsys, t) == ColumnNames(fetch_schema(fsys, t).val.val.column_defs)

(* The header line of the table's file stayed where it was.                *)
HeaderLineKept ==
    (last.op \in RowOps /\ WellFormed(last.pre, last.table)
     /\ last.res \notin {NoReturn, Panicked})
    => /\ FileOf(fs, last.table).ok
       /\ Head(Lines(FileOf(fs, last.table).val))
            = Head(Lines(FileOf(last.pre, last.table).val))

(* C25: an append_data, insert_data or delete_data on a created table,     *)
(* with any keys, leaves line 0 of the file the header it was, and         *)
(* fetch_schema reports the same column names in the same order as before. *)
C25_HeaderIsKept ==
    /\ HeaderLineKept
    /\ (last.op \in RowOps /\ WellFormed(last.pre, last.table)
        /\ last.res \notin {NoReturn, Panicked})
       => /\ fetch_schema(fs, last.table).ok
          /\ fetch_schema(fs, last.table).val.some
          /\ ReportedNames(fs, last.table) = ReportedNames(last.pre, last.table)

FrameTableIds == {<<"t">>, <<"t", Dot, "c", "s", "v">>, <<"u">>}

FrameInsertSchema ==
    \E t \in FrameTableIds :
        LET schema == [table_name |-> t, column_defs |-> ColumnDefs(<<<<"c">>>>, "Text")]
        IN  Mutation("insert_schema", t, schema, insert_schema(fs, schema))

FrameDeleteSchema ==
    \E t \in FrameTableIds : Mutation("delete_schema", t, <<>>, delete_schema(fs, t))

FrameAppendData ==
    \E t \in FrameTableIds, v \in {I64(<<"1">>), Str(<<"a">>)} :
        Mutation("append_data", t, <<<<v>>>>, append_data(fs, t, <<<<v>>>>))

FrameInsertData ==
    \E t \in FrameTableIds, n \in 0..1 :
        LET rows == <<<<KeyI32(n), <<I64(<<"2">>)>>>>>>
        IN  Mutation("insert_data", t, rows, insert_data(fs, t, rows))

FrameDeleteData ==
    \E t \in FrameTableIds :
        Mutation("delete_data", t, <<KeyI32(0)>>, delete_data(fs, t, <<KeyI32(0)>>))

NextFrame ==
    \/ FrameInsertSchema
    \/ FrameDeleteSchema
    \/ FrameAppendData
    \/ FrameInsertData
    \/ FrameDeleteData

SpecFrame == Init /\ [][NextFrame]_vars

(* The backing file of the table: the file its name resolves to.           *)
BackingFile(t) == Canonical(as_csv(TablePathOf(t).val))

(* The file is there or not, and holds, what it did before the call.       *)
FileUntouched(file) ==
    /\ file \in DOMAIN fs <=> file \in DOMAIN last.pre
    /\ file \in DOMAIN fs => fs[file] = last.pre[file]

ShortIdentifiers == SeqsUpTo(IdChars, MaxIdLen - 2)

(* C28: two different identifiers that both resolve never resolve to the   *)
(* same backing file, and neither do their names: identifiers with a dot   *)
(* in the last component, ending in ".csv" or with empty components        *)
(* included.                                                               *)
C28_ResolutionIsInjective ==
    (stage = "path" /\ tpath.ok)
    => \A other \in ShortIdentifiers :
          LET id == TableIdentifierNew(other, DataDir)
          IN  (other # ident /\ IdentifierToPath(id).ok)
              => Canonical(as_csv(IdentifierToPath(id).val))
                   # Canonical(as_csv(tpath.val))

====
